---- MODULE Spec2Model ----
(***************************************************************************)
(* coffee-diary: the token service (password reset / email confirmation),  *)
(* login, the forgot-password action and the coffee repository, modelled   *)
(* as concurrent requests against one database.                            *)
(*                                                                         *)
(* Every request is a process; every step of a process is one database     *)
(* statement (or one external call) together with the synchronous code     *)
(* that follows it up to the next await.                                   *)
(***************************************************************************)
EXTENDS Integers, Sequences, FiniteSets, TLC

\* ---------------------------------------------------------------- bounds
Procs == {1, 2}                 \* concurrent requests
MaxTokens == 2                  \* token identifiers ever generated
MaxTicks == 2                   \* clock advances explored
MaxCoffees == 3                 \* coffee entries ever created
MaxPerPage == 2                 \* page sizes requested
MaxRecorded == 3                \* coffees recorded while the statistics are watched

\* ------------------------------------------------------ program constants
ResetTtlMinutes == 5            \* expiresAt.setMinutes(getMinutes() + 5)
MinPasswordLength == 8          \* if (password.length < 8)
ConfirmTtlHours == 24           \* expiresAt.setHours(getHours() + 24)

\* -------------------------------------------------------------- universes
Users == {"u1", "u2"}           \* user ids; the e-mail of a user stands for its id
NoAccount == "nobody"           \* a well-formed e-mail no account has
Newcomers == {"u3"}             \* e-mails that sign up while the program runs
InvalidEmail == "invalid"       \* a string validateEmail rejects
Emails == Users \cup {NoAccount, InvalidEmail}
Passwords == {"pwA", "pwB"}       \* two passwords of eight characters or more
NoPassword == ""                \* the form field left empty
ShortPassword == "short"        \* a password of fewer than eight characters
FormPasswords == Passwords \cup {NoPassword, ShortPassword}
NoTokenParam == 0               \* the route parameter `token` absent
Salts == {"s1"}
Kinds == {"reset", "confirm"}
TokenIds == 1..MaxTokens
CoffeeIds == 1..MaxCoffees
\* the form fields of an entry: name, brand, rating (the other columns follow them)
CoffeeForms ==
  {[name |-> "Arabica", brand |-> "Illy", rating |-> 5],
   [name |-> "Arabica", brand |-> "Lavazza", rating |-> 3],
   [name |-> "Bourbon", brand |-> "Illy", rating |-> 4]}
PageSizes == 1..MaxPerPage
Pages == (-1)..MaxCoffees
MailOutcomes == {"ok", "notOk", "notOkTextThrows", "fetchThrows", "noApiKey", "noDomain"}

VARIABLES
  service,           \* the token kind the requests of this behaviour work on
  zone,              \* time zone of the server process: [at, before, after]
  now,               \* wall clock (UTC), in minutes
  ticks,             \* number of clock advances so far
  users,             \* table User joined with Password: id -> [isVerified, hash]
  passwordReset,     \* table PasswordReset: set of [token, userId, expiresAt]
  emailConfirmation, \* table EmailConfirmation: set of [token, userId, expiresAt]
  nextToken,         \* next identifier cuid() hands out
  call,              \* per request: operation, position, arguments, locals, result
  last,              \* what the step just taken returned to its caller, if it returned
  issued,            \* history: tokens returned by the create*Token functions
  pwWrites,          \* history: number of password updates applied, per authorising token
  mail,              \* per request: its last sendPasswordResetEmail call: [outcome, calls, ret]
  sessions           \* the sessions createUserSession made in the step just taken: [userId, route, isVerified]

VARIABLES
  coffees,           \* table Coffee: set of [id, userId, createdAt, name, brand, rating]
  nextCoffee,        \* next identifier cuid() hands out for a coffee
  tx,                \* the open $transaction of getCoffeeListItemsPaginated, if any
  reply              \* what the coffee repository call just taken returned

coffeeVars == <<coffees, nextCoffee, tx, reply>>

VARIABLES
  diary,             \* coffeeListItems as the statistics loader delivered them, newest first
  timeRange,         \* the time range selected on the statistics page
  today,             \* the date `new Date()` gives while the statistics page renders
  stats              \* what the statistics page computed when it last rendered

statsVars == <<diary, timeRange, today, stats>>

authVars == <<service, zone, now, ticks, users, passwordReset, emailConfirmation, nextToken,
              call, last, issued, pwWrites, mail, sessions>>

vars == <<authVars, coffeeVars, statsVars>>

\* ----------------------------------------------------------------- values
Null == [tag |-> "null"]
NoUser == [id |-> "-", isVerified |-> FALSE]
NoRow == [token |-> 0, userId |-> "-", expiresAt |-> 0, user |-> NoUser]

\* no request returned in the step just taken
Quiet == [op |-> "none", email |-> "-", token |-> 0, pw |-> "-", ret |-> Null]

Idle ==
  [op |-> "idle", pc |-> "idle", kind |-> "-", email |-> "-", token |-> 0,
   pw |-> "-", row |-> NoRow, exp |-> 0, route |-> "-"]

\* bcrypt.hash(password, 10): a salted hash; bcrypt.compare re-derives it
BcryptHash(pw, salt) == <<"bcrypt", salt, pw>>
BcryptCompare(pw, hash) == hash = BcryptHash(pw, hash[2])

Ttl(kind) == IF kind = "reset" THEN ResetTtlMinutes ELSE ConfirmTtlHours * 60

\* Time zones: local time is UTC + before until the instant `at`, UTC + after
\* from then on (offsets in minutes).  One zone without a transition, one
\* that sets its clocks back an hour and one that sets them forward.
Utc == [at |-> 0, before |-> 0, after |-> 0]
FallBack == [at |-> 1, before |-> 60, after |-> 0]
SpringForward == [at |-> 1, before |-> 0, after |-> 60]
Zones == {Utc, FallBack, SpringForward}

\* LocalTime(t): getMinutes() / getHours() read the local clock
Offset(z, t) == IF t < z.at THEN z.before ELSE z.after
LocalTime(z, t) == t + Offset(z, t)

\* UTC(tlocal): a local time that occurs twice, or never, is read with the
\* offset in force before the transition
UtcOf(z, tlocal) ==
  IF tlocal - z.before >= z.at /\ tlocal - z.after >= z.at
  THEN tlocal - z.after
  ELSE tlocal - z.before

\* d.setMinutes(d.getMinutes() + m), d.setHours(d.getHours() + h): the
\* fields of the local time are changed and the result converted back
SetLocal(z, t, minutes) == UtcOf(z, LocalTime(z, t) + minutes)

\* const expiresAt = new Date(); expiresAt.setMinutes(+5) / setHours(+24)
ExpiresAt(z, t, kind) == SetLocal(z, t, Ttl(kind))

Table(kind) == IF kind = "reset" THEN passwordReset ELSE emailConfirmation

\* prisma.user.findUnique({ where: { email } })  /  ({ where: { id } })
UserRecord(u) == [id |-> u, isVerified |-> users[u].isVerified]
getUserByEmail(email) ==
  IF email \in DOMAIN users THEN [tag |-> "user", user |-> UserRecord(email)] ELSE Null
getUserById(id) == getUserByEmail(id)

\* validateEmail(email) of ~/utils
validateEmail(email) == email # InvalidEmail

\* prisma.<table>.findUnique({ where: { token }, include: { user: true } })
FindUnique(rows, token) ==
  IF \E r \in rows : r.token = token
  THEN LET r == CHOOSE r \in rows : r.token = token
       IN [tag |-> "row",
           row |-> [token |-> r.token, userId |-> r.userId,
                    expiresAt |-> r.expiresAt, user |-> UserRecord(r.userId)]]
  ELSE Null

\* prisma.<table>.deleteMany({ where: { userId } })
DeleteManyByUser(rows, userId) == {r \in rows : r.userId # userId}

\* prisma.<table>.create({ data: { expiresAt, userId } }): token is the primary
\* key and userId carries a UNIQUE index, a second row for the user is refused
CreateRefusedNoIndex(rows, userId) == FALSE
CreateRefused(rows, userId) == \E r \in rows : r.userId = userId

\* prisma.<table>.delete({ where: { token } }): throws P2025 when no row matches
DeleteRefused(rows, token) == ~ \E r \in rows : r.token = token
DeleteByTokenKeeps(rows, token) == rows
DeleteByToken(rows, token) == {r \in rows : r.token # token}

\* the comparison `now > expiresAt` of verify*Token
IsExpiredAtExpiry(clock, expiresAt) == clock >= expiresAt
IsExpired(clock, expiresAt) == clock > expiresAt

\* sendPasswordResetEmail: true only when the API answered OK
sendPasswordResetEmailUnlessThrown(outcome) == outcome \in {"ok", "notOk"}
sendPasswordResetEmail(outcome) == outcome = "ok"

\* invariant(MAILGUN_API_KEY, ...); invariant(MAILGUN_DOMAIN, ...): a missing
\* value throws inside the try, before fetch is called
MailConfigured(outcome) == outcome \notin {"noApiKey", "noDomain"}

\* no sendPasswordResetEmail call made; a call whose fetch is awaited
NoMail == [outcome |-> "-", calls |-> 0, ret |-> "none"]
Fetching(outcome) == [outcome |-> outcome, calls |-> 1, ret |-> "pending"]

\* the call is over: it returned true or false
Mailed(m, outcome) ==
  [m EXCEPT !.outcome = outcome,
            !.ret = IF sendPasswordResetEmail(outcome) THEN "true" ELSE "false"]

\* no transaction open; no coffee call returned in the step just taken
NoTx == [pc |-> "idle", userId |-> "-", page |-> 0, perPage |-> 0, totalItems |-> 0]
Silent == [op |-> "none", userId |-> "-", id |-> 0, ret |-> Null]

\* ------------------------------------------------- statistics: dates
\* A date is [m, d]: months since January of the first year, day of the month.
\* The loader hands createdAt over as a string (JSON); the page parses it.
DaysInMonth == <<31, 28, 31, 30, 31, 30, 31, 31, 30, 31, 30, 31>>
DaysIn(m) == DaysInMonth[(m % 12) + 1]
Day(year, month, day) == [m |-> 12 * year + month - 1, d |-> day]
ToJson(date) == <<date.m \div 12, (date.m % 12) + 1, date.d>>
ParseDate(str) == [m |-> 12 * str[1] + str[2] - 1, d |-> str[3]]

\* a <= b on dates
NotAfter(a, b) == a.m < b.m \/ (a.m = b.m /\ a.d <= b.d)

\* date-fns subMonths(date, amount): the same day of the earlier month, or
\* that month's last day when it has fewer days
SubMonths(date, amount) ==
  LET desired == date.m - amount
      daysInMonth == DaysIn(desired)
  IN IF date.d >= daysInMonth
     THEN [m |-> desired, d |-> daysInMonth]
     ELSE [m |-> desired, d |-> date.d]

TimeRanges == {"1month", "3months", "6months", "1year", "all"}

\* the switch of filterCoffeesByTimeRange
RangeMonths(range) ==
  CASE range = "1month" -> 1
    [] range = "3months" -> 3
    [] range = "6months" -> 6
    [] range = "1year" -> 12
    [] OTHER -> 1

\* new Date(coffee.createdAt) >= startDate && new Date(coffee.createdAt) <= now
InRangeAfterStart(createdAt, startDate, clock) ==
  ~ NotAfter(createdAt, startDate) /\ NotAfter(createdAt, clock)
InRange(createdAt, startDate, clock) ==
  NotAfter(startDate, createdAt) /\ NotAfter(createdAt, clock)

filterCoffeesByTimeRange(items, range, clock) ==
  IF range = "all" THEN items
  ELSE LET startDate == SubMonths(clock, RangeMonths(range))
       IN SelectSeq(items,
                    LAMBDA coffee : InRange(ParseDate(coffee.createdAt), startDate, clock))

\* ----------------------------------------------- statistics: JS objects
\* An object literal {} filled by a reduce: its own properties as
\* <<key, value>> pairs in the order of their creation.
HasOwn(obj, key) == \E i \in 1..Len(obj) : obj[i][1] = key
IndexOfKey(obj, key) == CHOOSE i \in 1..Len(obj) : obj[i][1] = key
Get(obj, key) == obj[IndexOfKey(obj, key)][2]
Put(obj, key, value) ==
  IF HasOwn(obj, key)
  THEN [obj EXCEPT ![IndexOfKey(obj, key)] = <<key, value>>]
  ELSE Append(obj, <<key, value>>)

\* keys that are canonical array indices, at the position of their value
IntegerKeys == <<"1", "2">>
ArrayIndex(key) ==
  IF \E i \in 1..Len(IntegerKeys) : IntegerKeys[i] = key
  THEN CHOOSE i \in 1..Len(IntegerKeys) : IntegerKeys[i] = key
  ELSE 0

\* properties every object inherits from Object.prototype
InheritedKeys == {"constructor"}

\* OrdinaryOwnPropertyKeys: integer keys in ascending order first, then the
\* string keys in creation order
KeyBefore(obj, i, j) ==
  LET a == ArrayIndex(obj[i][1])
      b == ArrayIndex(obj[j][1])
  IN IF a > 0 /\ b > 0 THEN a < b
     ELSE IF a > 0 THEN TRUE
     ELSE IF b > 0 THEN FALSE
     ELSE i < j

ObjectEntries(obj) ==
  [k \in 1..Len(obj) |->
     obj[CHOOSE i \in 1..Len(obj) :
           Cardinality({j \in 1..Len(obj) : KeyBefore(obj, j, i)}) = k - 1]]

ObjectValues(obj) == [k \in 1..Len(obj) |-> ObjectEntries(obj)[k][2]]

\* ---------------------------------------------- statistics: rankings
TopCount == 5                   \* .slice(0, 5)

RECURSIVE Gcd(_, _)
Gcd(a, b) == IF b = 0 THEN a ELSE Gcd(b, a % b)

\* rating / count, as the fraction in lowest terms
Quotient(rating, count) ==
  LET g == Gcd(rating, count) IN <<rating \div g, count \div g>>

\* x - y on quotients, up to a positive factor
Difference(x, y) == x[1] * y[2] - y[1] * x[2]

\* const key = `${coffee.name}|${coffee.brand}`
GroupKey(coffee) == coffee.name \o "|" \o coffee.brand

\* the body of the reduce of calculateTopRatedCoffees / calculateMostConsumedCoffees
GroupCoffee(acc, coffee) ==
  LET key == GroupKey(coffee)
      old == IF HasOwn(acc, key) THEN Get(acc, key)
             ELSE [name |-> coffee.name, brand |-> coffee.brand,
                   count |-> 0, rating |-> 0, avgRating |-> <<0, 1>>]
      count == old.count + 1
      rating == old.rating + coffee.rating
  IN Put(acc, key, [old EXCEPT !.count = count, !.rating = rating,
                               !.avgRating = Quotient(rating, count)])

RECURSIVE GroupedCoffees(_)
GroupedCoffees(items) ==
  IF items = <<>> THEN <<>>
  ELSE GroupCoffee(GroupedCoffees(SubSeq(items, 1, Len(items) - 1)),
                   items[Len(items)])

\* (a, b) => b.avgRating - a.avgRating || b.count - a.count
ByRatingOnly(a, b) == Difference(b.avgRating, a.avgRating)
ByRatingThenCount(a, b) ==
  LET byRating == Difference(b.avgRating, a.avgRating)
  IN IF byRating # 0 THEN byRating ELSE b.count - a.count

\* (a, b) => b.count - a.count || b.avgRating - a.avgRating
ByCountOnly(a, b) == b.count - a.count
ByCountThenRating(a, b) ==
  LET byCount == b.count - a.count
  IN IF byCount # 0 THEN byCount ELSE Difference(b.avgRating, a.avgRating)

\* Array.prototype.sort: stable, a before b when compare(a, b) < 0;
\* compare[j, i] is what the comparator returns for array[j] and array[i]
ArraySort(array, compare) ==
  LET Precedes(j, i) ==
        \/ compare[j, i] < 0
        \/ compare[j, i] = 0 /\ j < i
  IN [k \in 1..Len(array) |->
        array[CHOOSE i \in 1..Len(array) :
                Cardinality({j \in 1..Len(array) : Precedes(j, i)}) = k - 1]]

\* array.slice(0, end)
Slice(array, end) == SubSeq(array, 1, IF Len(array) < end THEN Len(array) ELSE end)

calculateTopRatedCoffees(items) ==
  LET values == ObjectValues(GroupedCoffees(items))
      compare == [j \in 1..Len(values), i \in 1..Len(values) |->
                    ByRatingThenCount(values[j], values[i])]
  IN Slice(ArraySort(values, compare), TopCount)

calculateMostConsumedCoffees(items) ==
  LET values == ObjectValues(GroupedCoffees(items))
      compare == [j \in 1..Len(values), i \in 1..Len(values) |->
                    ByCountThenRating(values[j], values[i])]
  IN Slice(ArraySort(values, compare), TopCount)

\* ------------------------------------- statistics: most common preparation
\* a property value of preparationCounts: a number, or the string that comes
\* of adding 1 to an inherited function
Number(n) == [number |-> TRUE, n |-> n]
NotANumber == [number |-> FALSE, n |-> 0]
Str(value) == [tag |-> "string", value |-> value]

\* acc[coffee.preparation] = (acc[coffee.preparation] || 0) + 1
CountPreparation(acc, coffee) ==
  LET key == coffee.preparation
      old == IF HasOwn(acc, key) THEN Get(acc, key)
             ELSE IF key \in InheritedKeys THEN NotANumber
             ELSE Number(0)
  IN Put(acc, key, IF old.number THEN Number(old.n + 1) ELSE NotANumber)

RECURSIVE PreparationCounts(_)
PreparationCounts(items) ==
  IF items = <<>> THEN <<>>
  ELSE CountPreparation(PreparationCounts(SubSeq(items, 1, Len(items) - 1)),
                        items[Len(items)])

\* for (const [preparation, count] of entries) if (count > maxCount) { ... }
RECURSIVE MostCommonLoop(_, _, _)
MostCommonLoop(entries, maxCount, mostCommon) ==
  IF entries = <<>> THEN mostCommon
  ELSE LET preparation == entries[1][1]
           count == entries[1][2]
       IN IF count.number /\ count.n > maxCount
          THEN MostCommonLoop(Tail(entries), count.n, Str(preparation))
          ELSE MostCommonLoop(Tail(entries), maxCount, mostCommon)

calculateMostCommonPreparation(items) ==
  IF Len(items) = 0 THEN Null
  ELSE MostCommonLoop(ObjectEntries(PreparationCounts(items)), 0, Null)

\* ------------------------------------------------ statistics: the page
SerializedCoffee(name, brand, preparation, rating, createdAt) ==
  [name |-> name, brand |-> brand, preparation |-> preparation,
   rating |-> rating, createdAt |-> ToJson(createdAt)]

\* one render of StatsPage
StatsPage(coffeeListItems, range, clock) ==
  LET filteredCoffees == filterCoffeesByTimeRange(coffeeListItems, range, clock)
  IN [filteredCoffees |-> filteredCoffees,
      topRatedCoffees |-> calculateTopRatedCoffees(filteredCoffees),
      mostConsumedCoffees |-> calculateMostConsumedCoffees(filteredCoffees),
      mostCommonPreparation |-> calculateMostCommonPreparation(filteredCoffees)]

FirstDay == Day(1, 3, 31)

\* four coffees of four kinds, recorded more than a year before FirstDay
Regulars ==
  << SerializedCoffee("k1", "r", "Espresso", 5, Day(0, 1, 31)),
     SerializedCoffee("k2", "r", "Filter", 5, Day(0, 1, 31)),
     SerializedCoffee("k3", "r", "Espresso", 3, Day(0, 1, 31)),
     SerializedCoffee("k4", "r", "Filter", 1, Day(0, 1, 31)) >>

\* coffees recorded on FirstDay: names and brands with and without '|'
RankingCoffees ==
  {SerializedCoffee(name, brand, "Espresso", rating, FirstDay) :
     name \in {"a", "a|b"}, brand \in {"c", "b|c"}, rating \in {1, 5}}

\* coffees recorded on FirstDay: the preparation is any non-empty string
PreparationCoffees ==
  {SerializedCoffee("a", "c", preparation, 3, FirstDay) :
     preparation \in {"Espresso", "Filter", "1", "2", "constructor"}}

\* the days the page is opened on, and days around the range limits of each
Todays == {FirstDay, Day(1, 5, 15)}
CreationDays ==
  {Day(0, 3, 30), Day(0, 3, 31), Day(0, 9, 29), Day(0, 9, 30),
   Day(0, 12, 30), Day(0, 12, 31), Day(1, 2, 27), Day(1, 2, 28), Day(1, 3, 1),
   Day(1, 3, 31), Day(1, 4, 1),
   Day(0, 5, 14), Day(0, 5, 15), Day(0, 11, 14), Day(0, 11, 15),
   Day(1, 2, 14), Day(1, 2, 15), Day(1, 4, 14), Day(1, 4, 15),
   Day(1, 5, 15), Day(1, 5, 16)}
DatedCoffees ==
  {SerializedCoffee("a", "c", "Espresso", 3, createdAt) : createdAt \in CreationDays}

\* ------------------------------------------------------------------- Init
InitTables ==
  /\ service \in Kinds
  /\ zone \in Zones
  /\ now = 0
  /\ ticks = 0
  /\ users = [u \in Users |->
                [isVerified |-> (u = "u1"), hash |-> BcryptHash("pwA", "s1")]]
  /\ passwordReset = {}
  /\ emailConfirmation = {}
  /\ nextToken = 1
  /\ call = [p \in Procs |-> Idle]
  /\ last = Quiet
  /\ issued = {}
  /\ pwWrites = [t \in TokenIds |-> 0]
  /\ mail = [p \in Procs |-> NoMail]
  /\ sessions = {}
  /\ coffees = {}
  /\ nextCoffee = 1
  /\ tx = NoTx
  /\ reply = Silent

\* nobody has opened the statistics page
InitAnyZone ==
  /\ InitTables
  /\ diary = <<>>
  /\ timeRange = "1month"
  /\ today = FirstDay
  /\ stats = StatsPage(diary, timeRange, today)

\* the server runs in UTC
Init == InitAnyZone /\ zone = Utc

\* --------------------------------------------------------------- plumbing
Begin(op, kind, email, token, pw) ==
  [Idle EXCEPT !.op = op, !.kind = kind, !.email = email, !.token = token, !.pw = pw]

\* the request of p goes on as c
Continue(p, c) == call' = [call EXCEPT ![p] = c] /\ last' = Quiet /\ sessions' = {}

\* the request c of p ends: op hands ret to its caller, having made the sessions `made`
Finish(p, c, op, ret, made) ==
  /\ call' = [call EXCEPT ![p] = Idle]
  /\ last' = [op |-> op, email |-> c.email, token |-> c.token, pw |-> c.pw, ret |-> ret]
  /\ sessions' = made

\* createUserSession({ request, userId, remember, redirectTo }): a session
\* holding the user id, and a redirect that carries its cookie
createUserSession(userId, route) ==
  {[userId |-> userId, route |-> route, isVerified |-> users[userId].isVerified]}
SessionRedirect == [tag |-> "response", status |-> 302, body |-> "session cookie"]

\* JSON responses of the reset-password action and the confirm-email loader
RpNoToken == [tag |-> "response", status |-> 400, body |-> "error: Invalid reset attempt"]
RpRequired == [tag |-> "response", status |-> 400, body |-> "error: Password is required"]
RpShort == [tag |-> "response", status |-> 400, body |-> "error: Password must be at least 8 characters"]
RpMismatch == [tag |-> "response", status |-> 400, body |-> "error: Passwords do not match"]
RpInvalidToken == [tag |-> "response", status |-> 400, body |-> "error: Invalid or expired reset token"]
CeLoggedIn == [tag |-> "response", status |-> 302, body |-> "/"]
CeNoToken == [tag |-> "response", status |-> 400, body |-> "error: Invalid confirmation link"]
CeInvalidToken == [tag |-> "response", status |-> 400, body |-> "error: This confirmation link is invalid or has expired"]

\* JSON responses of the login action
LiNoAccount == [tag |-> "response", status |-> 400, body |-> "error: No account found with this email address"]
LiAlreadyVerified == [tag |-> "response", status |-> 200, body |-> "resendStatus: already-verified"]
LiSent == [tag |-> "response", status |-> 200, body |-> "resendStatus: sent"]
LiInvalidEmail == [tag |-> "response", status |-> 400, body |-> "error: Email is invalid"]
LiRequired == [tag |-> "response", status |-> 400, body |-> "error: Password is required"]
LiShort == [tag |-> "response", status |-> 400, body |-> "error: Password is too short"]
LiInvalidLogin == [tag |-> "response", status |-> 400, body |-> "error: Invalid email or password"]
LiPending == [tag |-> "response", status |-> 403, body |-> "pendingVerification"]

\* JSON responses of the signup action
JoinInvalidEmail == [tag |-> "response", status |-> 400, body |-> "error: Email is invalid"]
JoinRequired == [tag |-> "response", status |-> 400, body |-> "error: Password is required"]
JoinShort == [tag |-> "response", status |-> 400, body |-> "error: Password is too short"]
JoinExists == [tag |-> "response", status |-> 400, body |-> "error: A user already exists with this email"]
JoinAvatar == [tag |-> "response", status |-> 500, body |-> "avatarUrl: Failed to upload avatar image"]

\* what a route does with the value ret its model function returned:
\* if (!user) return json({ errors }, { status: 400 });
\* return createUserSession({ userId: user.id, ... });
\* an exception of the function leaves the route as it is
RouteAnswer(c, ret) ==
  IF ret.tag = "error" THEN ret
  ELSE IF ret.tag = "user" THEN SessionRedirect
  ELSE IF ret.tag = "alreadyVerified" THEN LiAlreadyVerified
  ELSE IF c.route = "login" THEN LiNoAccount
  ELSE IF c.route = "reset-password" THEN RpInvalidToken
  ELSE CeInvalidToken
RouteSession(c, ret) ==
  IF ret.tag = "user" THEN createUserSession(ret.user.id, c.route) ELSE {}

\* the request c of p ends: its operation returns ret to its caller
Return(p, c, ret) ==
  IF c.route = "-"
  THEN Finish(p, c, c.op, ret, {})
  ELSE Finish(p, c, c.route, RouteAnswer(c, ret), RouteSession(c, ret))

\* the route of request c answers without calling its model function
Respond(p, c, response) == Finish(p, c, c.route, response, {})

\* the request c of p ends with an exception nobody catches
Throw(p, c, code) == Return(p, c, [tag |-> "error", code |-> code])

SetTable(kind, rows) ==
  /\ passwordReset' = IF kind = "reset" THEN rows ELSE passwordReset
  /\ emailConfirmation' = IF kind = "confirm" THEN rows ELSE emailConfirmation

Issuing == {"join_upload", "join_create", "issue_getUser", "issue_delete", "issue_create"}

\* cuid() never runs dry; the model stops starting issuances when the
\* identifiers left would not cover the issuances in flight
TokensLeft == nextToken + Cardinality({q \in Procs : call[q].pc \in Issuing}) <= MaxTokens

\* JSON responses of the forgot-password action
FpInvalid == [tag |-> "response", status |-> 400, body |-> "error: Email is invalid"]
FpSuccess == [tag |-> "response", status |-> 200, body |-> "success: If your email exists"]
FpSendFailed == [tag |-> "response", status |-> 500, body |-> "error: Failed to send reset email"]

\* ------------------------------------------------------------------ clock
Tick ==
  /\ ticks < MaxTicks
  /\ \E d \in {1, Ttl(service)} : now' = now + d
  /\ ticks' = ticks + 1
  /\ last' = Quiet
  /\ sessions' = {}
  /\ UNCHANGED <<mail, statsVars, coffeeVars, zone, service, users, passwordReset, emailConfirmation, nextToken, call, issued, pwWrites>>

\* ------------------------------------------ forgot-password action, part 1
\* validateEmail, then getUserByEmail; an unknown e-mail gets the success body
ForgotPassword(p, email) ==
  /\ call[p].pc = "idle"
  /\ LET c == Begin("forgotPassword", "reset", email, 0, "-")
     IN IF ~ validateEmail(email)
        THEN Return(p, c, FpInvalid)
        ELSE IF getUserByEmail(email) = Null
        THEN Return(p, c, FpSuccess)
        ELSE /\ TokensLeft
             /\ Continue(p, [c EXCEPT !.pc = "issue_getUser"])
  /\ UNCHANGED <<mail, statsVars, coffeeVars, zone, service, now, ticks, users, passwordReset, emailConfirmation, nextToken, issued, pwWrites>>

\* ------------------------------------------------ resendEmailConfirmation
ResendLookup(p, c) ==
  LET u == getUserByEmail(c.email)
  IN IF u = Null
     THEN Return(p, c, Null)
     ELSE IF u.user.isVerified
     THEN Return(p, c, [tag |-> "alreadyVerified"])
     ELSE /\ TokensLeft
          /\ Continue(p, [c EXCEPT !.pc = "issue_getUser"])

ResendEmailConfirmation(p, email) ==
  /\ call[p].pc = "idle"
  /\ ResendLookup(p, Begin("resendEmailConfirmation", "confirm", email, 0, "-"))
  /\ UNCHANGED <<mail, statsVars, coffeeVars, zone, service, now, ticks, users, passwordReset, emailConfirmation, nextToken, issued, pwWrites>>

\* ------------- createPasswordResetToken / createEmailConfirmationToken
\* what the caller c does with the value r the create*Token function returns
AfterIssue(p, c, r) ==
  IF c.op = "forgotPassword"
  THEN IF r = Null THEN Return(p, c, FpSuccess)
       ELSE Continue(p, [c EXCEPT !.pc = "fp_send", !.token = r.token.token,
                                  !.row = NoRow, !.exp = 0])
  ELSE IF c.route = "join"
  THEN IF r = Null
       THEN Finish(p, c, c.route, SessionRedirect, createUserSession(c.email, c.route))
       ELSE Continue(p, [c EXCEPT !.pc = "join_send", !.token = r.token.token,
                                  !.row = NoRow, !.exp = 0])
  ELSE IF c.route = "login" /\ r # Null
  THEN Continue(p, [c EXCEPT !.pc = "login_send", !.token = r.token.token,
                             !.row = NoRow, !.exp = 0])
  ELSE Return(p, c, r)

\* const user = await getUserByEmail(email) / getUserById(userId);
\* if (!user) return null;
IssueLookup(p, c) ==
  LET u == IF c.kind = "reset" THEN getUserByEmail(c.email) ELSE getUserById(c.email)
  IN IF u = Null
     THEN AfterIssue(p, c, Null)
     ELSE Continue(p, [c EXCEPT !.pc = "issue_delete",
                                !.row = [NoRow EXCEPT !.userId = u.user.id, !.user = u.user]])

\* a direct call of the function
IssueStart(p, op, kind, email) ==
  /\ call[p].pc = "idle"
  /\ email \in DOMAIN users => TokensLeft
  /\ IssueLookup(p, Begin(op, kind, email, 0, "-"))
  /\ UNCHANGED <<mail, statsVars, coffeeVars, zone, service, now, ticks, users, passwordReset, emailConfirmation, nextToken, issued, pwWrites>>

createPasswordResetToken(p, email) ==
  IssueStart(p, "createPasswordResetToken", "reset", email)
createEmailConfirmationToken(p, userId) ==
  IssueStart(p, "createEmailConfirmationToken", "confirm", userId)

\* the same lookup when an action calls the function
IssueGetUser(p) ==
  /\ call[p].pc = "issue_getUser"
  /\ IssueLookup(p, call[p])
  /\ UNCHANGED <<mail, statsVars, coffeeVars, zone, service, now, ticks, users, passwordReset, emailConfirmation, nextToken, issued, pwWrites>>

\* await prisma.<table>.deleteMany({ where: { userId: user.id } });
\* const expiresAt = new Date(); expiresAt.setMinutes(+5) / setHours(+24)
IssueDelete(p) ==
  /\ call[p].pc = "issue_delete"
  /\ SetTable(call[p].kind, DeleteManyByUser(Table(call[p].kind), call[p].row.userId))
  /\ Continue(p, [call[p] EXCEPT !.pc = "issue_create", !.exp = ExpiresAt(zone, now, call[p].kind)])
  /\ UNCHANGED <<mail, statsVars, coffeeVars, zone, service, now, ticks, users, nextToken, issued, pwWrites>>

\* await prisma.<table>.create({ data: { expiresAt, userId } }); return { user, token }
IssueCreate(p) ==
  /\ call[p].pc = "issue_create"
  /\ LET kind == call[p].kind
         uid == call[p].row.userId
         new == [token |-> nextToken, userId |-> uid, expiresAt |-> call[p].exp]
     IN IF CreateRefused(Table(kind), uid)
        THEN /\ Throw(p, call[p], "P2002")
             /\ UNCHANGED <<passwordReset, emailConfirmation, nextToken, issued>>
        ELSE /\ SetTable(kind, Table(kind) \cup {new})
             /\ nextToken' = nextToken + 1
             /\ issued' = issued \cup {[token |-> nextToken, kind |-> kind, userId |-> uid]}
             /\ AfterIssue(p, call[p], [tag |-> "issued", user |-> call[p].row.user,
                                        token |-> new])
  /\ UNCHANGED <<mail, statsVars, coffeeVars, zone, service, now, ticks, users, pwWrites>>

\* ------------------------------------------ forgot-password action, part 2
\* what the action answers once sendPasswordResetEmail has returned
ForgotPasswordAnswer(p, m) ==
  /\ mail' = [mail EXCEPT ![p] = m]
  /\ Return(p, call[p], IF m.ret = "true" THEN FpSuccess ELSE FpSendFailed)

\* const emailSent = await sendPasswordResetEmail(user, token): the function
\* runs up to its `await fetch(...)`; without API key or domain it returns
\* false from its catch and the action answers
ForgotPasswordSend(p) ==
  /\ call[p].pc = "fp_send"
  /\ \E outcome \in MailOutcomes :
       IF MailConfigured(outcome)
       THEN /\ mail' = [mail EXCEPT ![p] = Fetching(outcome)]
            /\ Continue(p, [call[p] EXCEPT !.pc = "fp_fetch"])
       ELSE ForgotPasswordAnswer(p, Mailed(NoMail, outcome))
  /\ UNCHANGED <<statsVars, coffeeVars, zone, service, now, ticks, users, passwordReset, emailConfirmation, nextToken, issued, pwWrites>>

\* fetch settles: if (!response.ok) { await response.text(); return false }
\* return true; catch (error) { return false }
ForgotPasswordFetch(p) ==
  /\ call[p].pc = "fp_fetch"
  /\ ForgotPasswordAnswer(p, Mailed(mail[p], mail[p].outcome))
  /\ UNCHANGED <<statsVars, coffeeVars, zone, service, now, ticks, users, passwordReset, emailConfirmation, nextToken, issued, pwWrites>>

\* ---------------------- verifyPasswordResetToken / verifyEmailConfirmationToken
\* what the caller c does with the row verify*Token returns
AfterVerifyOk(p, c) ==
  IF c.op = "resetPassword" THEN Continue(p, [c EXCEPT !.pc = "rp_update"])
  ELSE IF c.op = "confirmUserEmail" THEN Continue(p, [c EXCEPT !.pc = "cue_update"])
  ELSE Return(p, c, [tag |-> "row", row |-> c.row])

\* const row = await prisma.<table>.findUnique(...); if (!row) return null;
\* const now = new Date(); if (now > row.expiresAt) { delete; return null } return row;
\* (a null from verify*Token makes resetPassword / confirmUserEmail return null)
VerifyLookup(p, c) ==
  LET f == FindUnique(Table(c.kind), c.token)
  IN IF f = Null
     THEN Return(p, c, Null)
     ELSE IF IsExpired(now, f.row.expiresAt)
     THEN Continue(p, [c EXCEPT !.pc = "verify_delete", !.row = f.row])
     ELSE AfterVerifyOk(p, [c EXCEPT !.row = f.row])

VerifyFind(p, op, kind, token, pw) ==
  /\ call[p].pc = "idle"
  /\ VerifyLookup(p, Begin(op, kind, "-", token, pw))
  /\ UNCHANGED <<mail, statsVars, coffeeVars, zone, service, now, ticks, users, passwordReset, emailConfirmation, nextToken, issued, pwWrites>>

verifyPasswordResetToken(p, token) ==
  VerifyFind(p, "verifyPasswordResetToken", "reset", token, "-")
verifyEmailConfirmationToken(p, token) ==
  VerifyFind(p, "verifyEmailConfirmationToken", "confirm", token, "-")
resetPassword(p, token, pw) == VerifyFind(p, "resetPassword", "reset", token, pw)
confirmUserEmail(p, token) == VerifyFind(p, "confirmUserEmail", "confirm", token, "-")

\* await prisma.<table>.delete({ where: { token } }); return null;
VerifyDelete(p) ==
  /\ call[p].pc = "verify_delete"
  /\ LET kind == call[p].kind
     IN IF DeleteRefused(Table(kind), call[p].token)
        THEN /\ Throw(p, call[p], "P2025")
             /\ UNCHANGED <<passwordReset, emailConfirmation>>
        ELSE /\ SetTable(kind, DeleteByToken(Table(kind), call[p].token))
             /\ Return(p, call[p], Null)
  /\ UNCHANGED <<mail, statsVars, coffeeVars, zone, service, now, ticks, users, nextToken, issued, pwWrites>>

\* ---------------------------------------------------------- resetPassword
\* prisma.password.update({ where: { userId }, data: { hash } })
PasswordUpdateIfTokenHeld(u, hash) ==
  IF \E r \in passwordReset : r.userId = u THEN [users EXCEPT ![u].hash = hash] ELSE users
PasswordUpdate(u, hash) == [users EXCEPT ![u].hash = hash]

\* const hashedPassword = await bcrypt.hash(newPassword, 10); password.update
ResetPasswordUpdate(p) ==
  /\ call[p].pc = "rp_update"
  /\ \E salt \in Salts :
       users' = PasswordUpdate(call[p].row.userId, BcryptHash(call[p].pw, salt))
  /\ pwWrites' = [pwWrites EXCEPT ![call[p].token] = @ + 1]
  /\ Continue(p, [call[p] EXCEPT !.pc = "rp_delete"])
  /\ UNCHANGED <<mail, statsVars, coffeeVars, zone, service, now, ticks, passwordReset, emailConfirmation, nextToken, issued>>

\* await prisma.passwordReset.delete({ where: { token } }); return passwordReset.user
ResetPasswordDelete(p) ==
  /\ call[p].pc = "rp_delete"
  /\ IF DeleteRefused(passwordReset, call[p].token)
     THEN /\ Throw(p, call[p], "P2025")
          /\ UNCHANGED passwordReset
     ELSE /\ passwordReset' = DeleteByToken(passwordReset, call[p].token)
          /\ Return(p, call[p], [tag |-> "user", user |-> call[p].row.user])
  /\ UNCHANGED <<mail, statsVars, coffeeVars, zone, service, now, ticks, users, emailConfirmation, nextToken, issued, pwWrites>>

\* ------------------------------------------------------- confirmUserEmail
\* const user = await prisma.user.update({ where: { id }, data: { isVerified: true } })
ConfirmUserEmailUpdate(p) ==
  /\ call[p].pc = "cue_update"
  /\ users' = [users EXCEPT ![call[p].row.userId].isVerified = TRUE]
  /\ Continue(p, [call[p] EXCEPT !.pc = "cue_delete",
                                 !.row.user = [id |-> call[p].row.userId,
                                               isVerified |-> TRUE]])
  /\ UNCHANGED <<mail, statsVars, coffeeVars, zone, service, now, ticks, passwordReset, emailConfirmation, nextToken, issued, pwWrites>>

\* await prisma.emailConfirmation.delete({ where: { token } }); return user
ConfirmUserEmailDelete(p) ==
  /\ call[p].pc = "cue_delete"
  /\ IF DeleteRefused(emailConfirmation, call[p].token)
     THEN /\ Throw(p, call[p], "P2025")
          /\ UNCHANGED emailConfirmation
     ELSE /\ emailConfirmation' = DeleteByToken(emailConfirmation, call[p].token)
          /\ Return(p, call[p], [tag |-> "user", user |-> call[p].row.user])
  /\ UNCHANGED <<mail, statsVars, coffeeVars, zone, service, now, ticks, users, passwordReset, nextToken, issued, pwWrites>>

\* ------------------------------------------------- reset-password action
\* password.length
PasswordLength(pw) == IF pw = NoPassword THEN 0 ELSE IF pw = ShortPassword THEN 5 ELSE 8

\* if (!token) 400; if (typeof password !== "string" || password.length === 0) 400;
\* if (password.length < 8) 400; if (password !== passwordConfirm) 400;
\* const user = await resetPassword(token, password);
ResetPasswordAction(p, token, password, passwordConfirm) ==
  /\ call[p].pc = "idle"
  /\ LET c == [Begin("resetPassword", "reset", "-", token, password)
                 EXCEPT !.route = "reset-password"]
     IN IF token = NoTokenParam THEN Respond(p, c, RpNoToken)
        ELSE IF PasswordLength(password) = 0 THEN Respond(p, c, RpRequired)
        ELSE IF PasswordLength(password) < MinPasswordLength THEN Respond(p, c, RpShort)
        ELSE IF password # passwordConfirm THEN Respond(p, c, RpMismatch)
        ELSE VerifyLookup(p, c)
  /\ UNCHANGED <<mail, statsVars, coffeeVars, zone, service, now, ticks, users, passwordReset, emailConfirmation, nextToken, issued, pwWrites>>

\* --------------------------------------------------- confirm-email loader
\* const userId = await getUserId(request); if (userId) return redirect("/");
\* if (!token) 400; const user = await confirmUserEmail(token);
ConfirmEmailLoader(p, loggedIn, token) ==
  /\ call[p].pc = "idle"
  /\ LET c == [Begin("confirmUserEmail", "confirm", "-", token, "-")
                 EXCEPT !.route = "confirm-email"]
     IN IF loggedIn THEN Respond(p, c, CeLoggedIn)
        ELSE IF token = NoTokenParam THEN Respond(p, c, CeNoToken)
        ELSE VerifyLookup(p, c)
  /\ UNCHANGED <<mail, statsVars, coffeeVars, zone, service, now, ticks, users, passwordReset, emailConfirmation, nextToken, issued, pwWrites>>

\* ------------------------------------------------------------ verifyLogin
\* prisma.user.findUnique({ where: { email }, include: { password: true } })
FindUserWithPassword(email) ==
  IF email \in DOMAIN users
  THEN [tag |-> "user", user |-> UserRecord(email), password |-> [hash |-> users[email].hash]]
  ELSE Null

\* the decision of verifyLogin on the row it fetched
VerifyLoginResultPasswordFirst(userWithPassword, password) ==
  IF userWithPassword = Null \/ "password" \notin DOMAIN userWithPassword
  THEN Null
  ELSE IF ~ BcryptCompare(password, userWithPassword.password.hash)
  THEN Null
  ELSE IF ~ userWithPassword.user.isVerified
  THEN [tag |-> "needsVerification"]
  ELSE [tag |-> "user", user |-> userWithPassword.user]
VerifyLoginResult(userWithPassword, password) ==
  IF userWithPassword = Null \/ "password" \notin DOMAIN userWithPassword
  THEN Null
  ELSE IF ~ userWithPassword.user.isVerified
  THEN [tag |-> "needsVerification"]
  ELSE IF ~ BcryptCompare(password, userWithPassword.password.hash)
  THEN Null
  ELSE [tag |-> "user", user |-> userWithPassword.user]

verifyLogin(p, email, password) ==
  /\ call[p].pc = "idle"
  /\ Return(p, Begin("verifyLogin", "-", email, 0, password),
            VerifyLoginResult(FindUserWithPassword(email), password))
  /\ UNCHANGED <<mail, statsVars, coffeeVars, zone, service, now, ticks, users, passwordReset, emailConfirmation, nextToken, issued, pwWrites>>

\* ----------------------------------------------------------- login action
Intents == {"login", "resend-confirmation"}
\* sendEmailConfirmation(user, token) of ~/services/email.server
EmailOutcomes == {"returns", "throws"}

\* if (intent === "resend-confirmation" && validateEmail(email))
\*   resendEmailConfirmation(email) ...
\* validateEmail, password required, password.length < 8: 400;
\* const user = await verifyLogin(email, password); !user: 400;
\* needsVerification: 403; return createUserSession({ userId: user.id })
LoginAction(p, intent, email, password) ==
  /\ call[p].pc = "idle"
  /\ LET c == [Begin("verifyLogin", "-", email, 0, password) EXCEPT !.route = "login"]
         user == VerifyLoginResult(FindUserWithPassword(email), password)
     IN IF intent = "resend-confirmation" /\ validateEmail(email)
        THEN ResendLookup(p, [c EXCEPT !.op = "resendEmailConfirmation", !.kind = "confirm"])
        ELSE IF ~ validateEmail(email) THEN Respond(p, c, LiInvalidEmail)
        ELSE IF PasswordLength(password) = 0 THEN Respond(p, c, LiRequired)
        ELSE IF PasswordLength(password) < MinPasswordLength THEN Respond(p, c, LiShort)
        ELSE IF user = Null THEN Respond(p, c, LiInvalidLogin)
        ELSE IF user.tag = "needsVerification" THEN Respond(p, c, LiPending)
        ELSE Finish(p, c, c.route, SessionRedirect, createUserSession(user.user.id, c.route))
  /\ UNCHANGED <<mail, statsVars, coffeeVars, zone, service, now, ticks, users, passwordReset, emailConfirmation, nextToken, issued, pwWrites>>

\* await sendEmailConfirmation(result.user, result.emailConfirmation.token);
\* return json({ resendStatus: "sent" }, { status: 200 })
LoginSend(p) ==
  /\ call[p].pc = "login_send"
  /\ \E outcome \in EmailOutcomes :
       IF outcome = "throws" THEN Throw(p, call[p], "sendEmailConfirmation")
                             ELSE Respond(p, call[p], LiSent)
  /\ UNCHANGED <<mail, statsVars, coffeeVars, zone, service, now, ticks, users, passwordReset, emailConfirmation, nextToken, issued, pwWrites>>

\* ---------------------------------------------------------- signup action
\* uploadFileToS3(avatarData, fileName, contentType): the URL, or it throws
UploadOutcomes == {"uploaded", "throws"}

\* the row prisma.user.create makes: isVerified: false, password: { hash }
NewUserVerified(hash) == [isVerified |-> TRUE, hash |-> hash]
NewUser(hash) == [isVerified |-> FALSE, hash |-> hash]

\* validateEmail, password required, password.length < 8: 400;
\* const existingUser = await getUserByEmail(email); if (existingUser) 400;
\* if (typeof avatarData === "string" && avatarData) { try { upload
SignupAction(p, email, password, withAvatar) ==
  /\ call[p].pc = "idle"
  /\ LET c == [Begin("join", "confirm", email, 0, password) EXCEPT !.route = "join"]
     IN IF ~ validateEmail(email) THEN Respond(p, c, JoinInvalidEmail)
        ELSE IF PasswordLength(password) = 0 THEN Respond(p, c, JoinRequired)
        ELSE IF PasswordLength(password) < MinPasswordLength THEN Respond(p, c, JoinShort)
        ELSE IF getUserByEmail(email) # Null THEN Respond(p, c, JoinExists)
        ELSE /\ TokensLeft
             /\ Continue(p, [c EXCEPT !.pc = IF withAvatar THEN "join_upload"
                                                           ELSE "join_create"])
  /\ UNCHANGED <<mail, statsVars, coffeeVars, zone, service, now, ticks, users, passwordReset, emailConfirmation, nextToken, issued, pwWrites>>

\* avatarUrl = await uploadFileToS3(...); catch (error) { return json(..., 500) }
SignupUpload(p) ==
  /\ call[p].pc = "join_upload"
  /\ \E outcome \in UploadOutcomes :
       IF outcome = "throws" THEN Respond(p, call[p], JoinAvatar)
                             ELSE Continue(p, [call[p] EXCEPT !.pc = "join_create"])
  /\ UNCHANGED <<mail, statsVars, coffeeVars, zone, service, now, ticks, users, passwordReset, emailConfirmation, nextToken, issued, pwWrites>>

\* const user = await createUnverifiedUser(email, password, ...):
\* bcrypt.hash(password, 10); prisma.user.create({ data: { email, isVerified: false, ... } })
\* then createEmailConfirmationToken(user.id) starts
createUnverifiedUser(p) ==
  /\ call[p].pc = "join_create"
  /\ IF call[p].email \in DOMAIN users
     THEN /\ Throw(p, call[p], "P2002")
          /\ UNCHANGED users
     ELSE /\ \E salt \in Salts :
               users' = [e \in DOMAIN users \cup {call[p].email} |->
                           IF e = call[p].email
                           THEN NewUser(BcryptHash(call[p].pw, salt))
                           ELSE users[e]]
          /\ Continue(p, [call[p] EXCEPT !.pc = "issue_getUser"])
  /\ UNCHANGED <<mail, statsVars, coffeeVars, zone, service, now, ticks, passwordReset, emailConfirmation, nextToken, issued, pwWrites>>

\* try { await sendEmailConfirmation(...) } catch (error) { console.error }
\* return createUserSession({ userId: user.id, ... })
SignupSend(p) ==
  /\ call[p].pc = "join_send"
  /\ \E outcome \in EmailOutcomes :
       Finish(p, call[p], call[p].route, SessionRedirect,
              createUserSession(call[p].email, call[p].route))
  /\ UNCHANGED <<mail, statsVars, coffeeVars, zone, service, now, ticks, users, passwordReset, emailConfirmation, nextToken, issued, pwWrites>>

\* ------------------------------------------------------------------- Next
\* The two token tables share no row and no statement reads or writes both,
\* so a behaviour exercises one of them: the kind Init chose.
TokenStep(p) ==
  \/ /\ service = "reset"
     /\ \/ \E email \in Users \cup {NoAccount} : createPasswordResetToken(p, email)
        \/ \E token \in TokenIds : verifyPasswordResetToken(p, token)
        \/ \E token \in TokenIds, pw \in Passwords : resetPassword(p, token, pw)
  \/ /\ service = "confirm"
     /\ \/ \E id \in Users \cup {NoAccount} : createEmailConfirmationToken(p, id)
        \/ \E token \in TokenIds : verifyEmailConfirmationToken(p, token)
        \/ \E token \in TokenIds : confirmUserEmail(p, token)
  \/ IssueDelete(p)
  \/ IssueCreate(p)
  \/ VerifyDelete(p)
  \/ ResetPasswordUpdate(p)
  \/ ResetPasswordDelete(p)
  \/ ConfirmUserEmailUpdate(p)
  \/ ConfirmUserEmailDelete(p)

\* concurrent requests against the token service
Next == Tick \/ \E p \in Procs : TokenStep(p)

Spec == Init /\ [][Next]_vars

\* one request at a time: a request takes a step only while every other rests
OthersRest(p) == \A q \in Procs \ {p} : call[q].pc = "idle"

NextSeq == Tick \/ \E p \in Procs : OthersRest(p) /\ TokenStep(p)

SpecSeq == Init /\ [][NextSeq]_vars

\* one request at a time, on a server in any of the time zones
SpecExpiry == InitAnyZone /\ [][NextSeq]_vars

\* login attempts between the requests of the token service
NextLogin ==
  \/ NextSeq
  \/ \E p \in Procs, email \in Users \cup {NoAccount}, pw \in Passwords :
       OthersRest(p) /\ verifyLogin(p, email, pw)

SpecLogin == Init /\ [][NextLogin]_vars

\* concurrent forgot-password requests
NextForgot ==
  \E p \in Procs :
    \/ \E email \in Emails : ForgotPassword(p, email)
    \/ IssueGetUser(p)
    \/ IssueDelete(p)
    \/ IssueCreate(p)
    \/ ForgotPasswordSend(p)
    \/ ForgotPasswordFetch(p)

\* the action issues reset tokens only
InitForgot == Init /\ service = "reset"

SpecForgot == InitForgot /\ [][NextForgot]_vars

\* the field passwordConfirm: the password again, or something else
PasswordConfirms(pw) == {pw, IF pw = "pwA" THEN "pwB" ELSE "pwA"}

\* concurrent requests to the reset-password route, and issuances
NextReset ==
  \/ Tick
  \/ \E p \in Procs :
       \/ \E email \in Users \cup {NoAccount} : createPasswordResetToken(p, email)
       \/ \E token \in TokenIds \cup {NoTokenParam}, pw \in FormPasswords :
            \E confirm \in PasswordConfirms(pw) : ResetPasswordAction(p, token, pw, confirm)
       \/ IssueDelete(p)
       \/ IssueCreate(p)
       \/ VerifyDelete(p)
       \/ ResetPasswordUpdate(p)
       \/ ResetPasswordDelete(p)

InitReset == Init /\ service = "reset"

SpecReset == InitReset /\ [][NextReset]_vars

\* concurrent resendEmailConfirmation and confirmUserEmail calls
NextResend ==
  \/ Tick
  \/ \E p \in Procs :
       \/ \E email \in Users \cup {NoAccount} : ResendEmailConfirmation(p, email)
       \/ \E token \in TokenIds : confirmUserEmail(p, token)
       \/ IssueGetUser(p)
       \/ IssueDelete(p)
       \/ IssueCreate(p)
       \/ VerifyDelete(p)
       \/ ConfirmUserEmailUpdate(p)
       \/ ConfirmUserEmailDelete(p)

InitResend == Init /\ service = "confirm"

SpecResend == InitResend /\ [][NextResend]_vars

\* concurrent requests to the signup action, and resend requests to the
\* login action
NextSignup ==
  \E p \in Procs :
    \/ \E email \in {InvalidEmail, "u1"} \cup Newcomers, pw \in FormPasswords, withAvatar \in BOOLEAN :
         SignupAction(p, email, pw, withAvatar)
    \/ \E email \in Users \cup Newcomers :
         LoginAction(p, "resend-confirmation", email, NoPassword)
    \/ SignupUpload(p)
    \/ createUnverifiedUser(p)
    \/ IssueGetUser(p)
    \/ IssueDelete(p)
    \/ IssueCreate(p)
    \/ SignupSend(p)
    \/ LoginSend(p)

InitSignup == Init /\ service = "confirm"

SpecSignup == InitSignup /\ [][NextSignup]_vars

\* the steps of the routes that can end in createUserSession
RouteStep(p) ==
  \/ \E intent \in Intents, email \in Emails \cup Newcomers, pw \in FormPasswords :
       /\ intent = "resend-confirmation" => service = "confirm"
       /\ LoginAction(p, intent, email, pw)
  \/ LoginSend(p)
  \/ /\ service = "reset"
     /\ \/ \E email \in Emails : ForgotPassword(p, email)
        \/ \E token \in TokenIds \cup {NoTokenParam}, pw \in FormPasswords :
             \E confirm \in PasswordConfirms(pw) : ResetPasswordAction(p, token, pw, confirm)
  \/ /\ service = "confirm"
     /\ \/ \E loggedIn \in BOOLEAN, token \in TokenIds \cup {NoTokenParam} :
             ConfirmEmailLoader(p, loggedIn, token)
        \/ \E email \in Emails \cup Newcomers, pw \in FormPasswords, withAvatar \in BOOLEAN :
             SignupAction(p, email, pw, withAvatar)
  \/ SignupUpload(p)
  \/ createUnverifiedUser(p)
  \/ SignupSend(p)
  \/ ForgotPasswordSend(p)
  \/ ForgotPasswordFetch(p)
  \/ IssueGetUser(p)
  \/ IssueDelete(p)
  \/ IssueCreate(p)
  \/ VerifyDelete(p)
  \/ ResetPasswordUpdate(p)
  \/ ResetPasswordDelete(p)
  \/ ConfirmUserEmailUpdate(p)
  \/ ConfirmUserEmailDelete(p)

\* the routes, one request after the other
NextSessions == Tick \/ RouteStep(1)

SpecSessions == Init /\ [][NextSessions]_vars

\* ======================================================= coffee repository
Min(a, b) == IF a < b THEN a ELSE b

\* Math.ceil(totalItems / perPage)
Floor(n, d) == n \div d
Ceil(n, d) == (n + d - 1) \div d

\* where: { userId }
OwnedBy(rows, userId) == {r \in rows : r.userId = userId}

\* orderBy: { createdAt: "desc" }; rows of one instant come in insertion order
Before(a, b) == a.createdAt > b.createdAt \/ (a.createdAt = b.createdAt /\ a.id < b.id)

RECURSIVE OrderByCreatedAtDesc(_)
OrderByCreatedAtDesc(rows) ==
  IF rows = {} THEN <<>>
  ELSE LET first == CHOOSE r \in rows : \A o \in rows \ {r} : Before(r, o)
       IN <<first>> \o OrderByCreatedAtDesc(rows \ {first})

\* skip: n, take: m
SkipTake(seq, skip, take) == SubSeq(seq, skip + 1, Min(skip + take, Len(seq)))

\* prisma.coffee.findFirst({ where: { id, userId } })
FindFirst(rows, id, userId) ==
  IF \E r \in rows : r.id = id /\ r.userId = userId
  THEN [tag |-> "coffee", coffee |-> CHOOSE r \in rows : r.id = id /\ r.userId = userId]
  ELSE Null

\* alphabetical rank of the names and brands of the forms
Rank(str) ==
  CASE str = "Arabica" -> 1 [] str = "Bourbon" -> 2
    [] str = "Illy" -> 1 [] str = "Lavazza" -> 2

PairBeforeBrandFirst(a, b) ==
  Rank(a.brand) < Rank(b.brand) \/ (a.brand = b.brand /\ Rank(a.name) < Rank(b.name))
PairBefore(a, b) ==
  Rank(a.name) < Rank(b.name) \/ (a.name = b.name /\ Rank(a.brand) < Rank(b.brand))

RECURSIVE OrderByNameBrand(_)
OrderByNameBrand(pairs) ==
  IF pairs = {} THEN <<>>
  ELSE LET first == CHOOSE r \in pairs : \A o \in pairs \ {r} : PairBefore(r, o)
       IN <<first>> \o OrderByNameBrand(pairs \ {first})

\* distinct: ['name', 'brand'], select: { name, brand }, orderBy name, brand
DistinctNameBrand(rows) ==
  OrderByNameBrand({[name |-> r.name, brand |-> r.brand] : r \in rows})

\* hasNextPage: page < totalPages
HasNextPageInclusive(page, totalPages) == page <= totalPages
HasNextPage(page, totalPages) == page < totalPages

\* hasPrevPage: page > 1
HasPrevPageFromFirst(page) == page > 0
HasPrevPage(page) == page > 1

\* the object getCoffeeListItemsPaginated returns
PageResultSkipsPage(totalItems, rows, page, perPage) ==
  LET totalPages == Ceil(totalItems, perPage)
  IN [tag |-> "page",
      items |-> SkipTake(OrderByCreatedAtDesc(rows), page * perPage, perPage),
      pagination |-> [totalItems |-> totalItems,
                      totalPages |-> totalPages,
                      currentPage |-> page,
                      perPage |-> perPage,
                      hasNextPage |-> HasNextPage(page, totalPages),
                      hasPrevPage |-> HasPrevPage(page)]]
PageResult(totalItems, rows, page, perPage) ==
  LET totalPages == Ceil(totalItems, perPage)
  IN [tag |-> "page",
      items |-> SkipTake(OrderByCreatedAtDesc(rows), (page - 1) * perPage, perPage),
      pagination |-> [totalItems |-> totalItems,
                      totalPages |-> totalPages,
                      currentPage |-> page,
                      perPage |-> perPage,
                      hasNextPage |-> HasNextPage(page, totalPages),
                      hasPrevPage |-> HasPrevPage(page)]]

\* SQLite: while a read transaction is open no other connection commits
WritesAllowedAlways == TRUE
WritesAllowed == tx.pc = "idle"

Answer(op, userId, id, ret) == reply' = [op |-> op, userId |-> userId, id |-> id, ret |-> ret]

\* prisma.coffee.create({ data: { ..., user: { connect: { id: userId } } } })
\* createdAt DateTime @default(now()): the clock has not gone back since the last insert
createCoffee(userId, form, elapsed) ==
  /\ WritesAllowed
  /\ nextCoffee <= MaxCoffees
  /\ now' = now + elapsed
  /\ LET new == [id |-> nextCoffee, userId |-> userId, createdAt |-> now',
                 name |-> form.name, brand |-> form.brand, rating |-> form.rating]
     IN /\ coffees' = coffees \cup {new}
        /\ Answer("createCoffee", userId, nextCoffee, [tag |-> "coffee", coffee |-> new])
  /\ nextCoffee' = nextCoffee + 1
  /\ UNCHANGED <<sessions, mail, statsVars, tx, zone, service, ticks, users, passwordReset, emailConfirmation, nextToken,
                 call, last, issued, pwWrites>>

\* prisma.coffee.deleteMany({ where: { id, userId } })
DeleteMany(rows, id, userId) == {r \in rows : ~ (r.id = id /\ r.userId = userId)}

deleteCoffee(userId, id) ==
  /\ WritesAllowed
  /\ coffees' = DeleteMany(coffees, id, userId)
  /\ Answer("deleteCoffee", userId, id,
            [tag |-> "count", count |-> Cardinality(coffees) - Cardinality(coffees')])
  /\ UNCHANGED <<nextCoffee, tx, authVars, statsVars>>

\* prisma.coffee.update({ where: { id, userId }, data }): P2025 when no row matches
UpdateMatchesAnyOwner(rows, id, userId) == {r \in rows : r.id = id}
UpdateMatches(rows, id, userId) == {r \in rows : r.id = id /\ r.userId = userId}

updateCoffee(userId, id, form) ==
  /\ WritesAllowed
  /\ LET hit == UpdateMatches(coffees, id, userId)
     IN IF hit = {}
        THEN /\ Answer("updateCoffee", userId, id, [tag |-> "error", code |-> "P2025"])
             /\ UNCHANGED coffees
        ELSE LET old == CHOOSE r \in hit : TRUE
                 new == [old EXCEPT !.name = form.name, !.brand = form.brand,
                                    !.rating = form.rating]
             IN /\ coffees' = (coffees \ {old}) \cup {new}
                /\ Answer("updateCoffee", userId, id, [tag |-> "coffee", coffee |-> new])
  /\ UNCHANGED <<nextCoffee, tx, authVars, statsVars>>

getCoffee(userId, id) ==
  /\ Answer("getCoffee", userId, id, FindFirst(coffees, id, userId))
  /\ UNCHANGED <<coffees, nextCoffee, tx, authVars, statsVars>>

\* prisma.coffee.findMany({ where: { userId }, orderBy: { createdAt: "desc" } })
getCoffeeListItems(userId) ==
  /\ Answer("getCoffeeListItems", userId, 0,
            [tag |-> "list", items |-> OrderByCreatedAtDesc(OwnedBy(coffees, userId))])
  /\ UNCHANGED <<coffees, nextCoffee, tx, authVars, statsVars>>

getUniqueCoffees(userId) ==
  /\ Answer("getUniqueCoffees", userId, 0,
            [tag |-> "list", items |-> DistinctNameBrand(OwnedBy(coffees, userId))])
  /\ UNCHANGED <<coffees, nextCoffee, tx, authVars, statsVars>>

\* prisma.$transaction: const totalItems = await tx.coffee.count({ where: { userId } })
getCoffeeListItemsPaginated(userId, page, perPage) ==
  /\ tx.pc = "idle"
  /\ tx' = [pc |-> "findMany", userId |-> userId, page |-> page, perPage |-> perPage,
            totalItems |-> Cardinality(OwnedBy(coffees, userId))]
  /\ reply' = Silent
  /\ UNCHANGED <<coffees, nextCoffee, authVars, statsVars>>

\* the query engine refuses a negative skip ("Value can only be positive")
SkipRefused(page, perPage) == (page - 1) * perPage < 0

\* const items = await tx.coffee.findMany({ ..., skip, take }); return { items, pagination }
\* a findMany that rejects makes the transaction, and the call, reject
PaginatedFindMany ==
  /\ tx.pc = "findMany"
  /\ Answer("getCoffeeListItemsPaginated", tx.userId, tx.page,
            IF SkipRefused(tx.page, tx.perPage)
            THEN [tag |-> "error", code |-> "skip"]
            ELSE PageResult(tx.totalItems, OwnedBy(coffees, tx.userId), tx.page, tx.perPage))
  /\ tx' = NoTx
  /\ UNCHANGED <<coffees, nextCoffee, authVars, statsVars>>

\* Between the two statements of the transaction the model schedules the
\* writes of other requests only (SQLite holds them back): a read of another
\* request changes nothing either statement sees.
NextCoffee ==
  \/ \E u \in Users, form \in CoffeeForms, elapsed \in {0, 1} : createCoffee(u, form, elapsed)
  \/ \E u \in Users, id \in CoffeeIds : deleteCoffee(u, id)
  \/ \E u \in Users, id \in CoffeeIds, form \in CoffeeForms : updateCoffee(u, id, form)
  \/ /\ tx.pc = "idle"
     /\ \/ \E u \in Users, id \in CoffeeIds : getCoffee(u, id)
        \/ \E u \in Users : getCoffeeListItems(u)
        \/ \E u \in Users : getUniqueCoffees(u)
  \/ \E u \in Users, page \in Pages, perPage \in PageSizes :
       getCoffeeListItemsPaginated(u, page, perPage)
  \/ PaginatedFindMany

\* the repository touches no token table: one token service stands for both
InitCoffee == Init /\ service = "reset"

SpecCoffee == InitCoffee /\ [][NextCoffee]_vars

\* ================================================================ claims
\* -------------------------------------------------- the statistics page
\* loader: getCoffeeListItems returns the user's coffees, newest first; the
\* page renders with them.  `coffee` is the coffee recorded since last time.
loader(coffee) ==
  /\ Len(diary) < Len(Regulars) + MaxRecorded
  /\ NotAfter(ParseDate(diary[1].createdAt), ParseDate(coffee.createdAt))
  /\ diary' = <<coffee>> \o diary
  /\ stats' = StatsPage(diary', timeRange, today)
  /\ UNCHANGED <<timeRange, today, authVars, coffeeVars>>

\* onClick={() => setTimeRange(range)}: the page renders with the new range
setTimeRange(range) ==
  /\ range # timeRange
  /\ timeRange' = range
  /\ stats' = StatsPage(diary, range, today)
  /\ UNCHANGED <<diary, today, authVars, coffeeVars>>

InitStats ==
  /\ InitTables
  /\ zone = Utc
  /\ service = "reset"
  /\ diary = Regulars
  /\ timeRange = "1month"
  /\ today \in Todays
  /\ stats = StatsPage(diary, timeRange, today)

InitRanking == InitStats /\ today = FirstDay

NextRanking ==
  \/ \E coffee \in RankingCoffees : loader(coffee)
  \/ \E range \in TimeRanges : setTimeRange(range)

SpecRanking == InitRanking /\ [][NextRanking]_vars

NextPreparation ==
  \/ \E coffee \in PreparationCoffees : loader(coffee)
  \/ \E range \in TimeRanges : setTimeRange(range)

SpecPreparation == InitRanking /\ [][NextPreparation]_vars

NextTimeRange ==
  \/ \E coffee \in DatedCoffees : loader(coffee)
  \/ \E range \in TimeRanges : setTimeRange(range)

SpecTimeRange == InitStats /\ [][NextTimeRange]_vars

VerifyOps == {"verifyPasswordResetToken", "verifyEmailConfirmationToken"}
KindOf(op) == IF op \in {"verifyPasswordResetToken", "resetPassword",
                         "createPasswordResetToken", "forgotPassword"}
              THEN "reset" ELSE "confirm"
Stored(kind, token) == \E r \in Table(kind) : r.token = token
RowOf(kind, token) == CHOOSE r \in Table(kind) : r.token = token

\* C1: in every reachable state, whatever the interleaving of issuances,
\* verifications and consumptions, each table holds at most one token per user.
C1_OneTokenPerUser ==
  \A k \in Kinds, u \in Users : Cardinality({r \in Table(k) : r.userId = u}) <= 1

\* an issuance about to insert for a user who got a token after this
\* issuance's own deleteMany: the two delete-then-create sequences interleaved
C1_Witness ==
  \E p \in Procs :
    /\ call[p].pc = "issue_create"
    /\ \E r \in Table(call[p].kind) : r.userId = call[p].row.userId

\* what verify*Token answers for `token` when the clock shows `clock`
VerifyAnswer(kind, token, clock) ==
  LET f == FindUnique(Table(kind), token)
  IN IF f = Null THEN Null
     ELSE IF IsExpired(clock, f.row.expiresAt) THEN Null ELSE f

ClockSamples ==
  {0, now} \cup UNION {{r.expiresAt, r.expiresAt + 1} : r \in passwordReset \cup emailConfirmation}

Superseded(i) ==
  \E j \in issued : j.kind = i.kind /\ j.userId = i.userId /\ j.token > i.token

\* C2: once a newer token of the same kind has been issued to a user, every
\* older token of that kind of that user fails verification at any clock value.
C2_OldTokenFailsVerification ==
  \A i \in issued :
    Superseded(i) => \A c \in ClockSamples : VerifyAnswer(i.kind, i.token, c) = Null

\* a user has been issued a second token while the first had not expired
C2_Witness ==
  \E i \in issued :
    /\ Superseded(i)
    /\ \E r \in Table(i.kind) : r.userId = i.userId /\ r.token > i.token
    /\ now = 0

\* C3: a verification that finds the token stored and expired returns null,
\* as for an absent token, and the token is gone once the call has returned.
\* (A verify*Token call ends in null or in an exception only on the absent
\* and on the expired path.)
C3_ExpiredVerifyReturnsNull ==
  (last.op \in VerifyOps /\ last.ret.tag # "row")
    => (last.ret = Null /\ ~ Stored(KindOf(last.op), last.token))

\* C4: verification succeeds iff clock <= expiresAt: at or before expiry the
\* call returns the row with its owner and changes neither the token tables
\* nor the users; a verification never returns a row whose expiry has passed.
C4_Step ==
  /\ \A p \in Procs, t \in TokenIds :
       (/\ verifyPasswordResetToken(p, t) \/ verifyEmailConfirmationToken(p, t)
        /\ Stored(service, t)
        /\ now <= RowOf(service, t).expiresAt)
       => /\ last'.ret.tag = "row"
          /\ last'.ret.row.token = t
          /\ last'.ret.row.userId = RowOf(service, t).userId
          /\ last'.ret.row.user.id = RowOf(service, t).userId
          /\ UNCHANGED <<passwordReset, emailConfirmation, users>>
  /\ (last'.op \in VerifyOps /\ last'.ret.tag = "row")
       => /\ now <= last'.ret.row.expiresAt
          /\ Stored(KindOf(last'.op), last'.token)

C4_ValidIffNotAfterExpiry == [][C4_Step]_vars

\* a verification answered with the row at the very instant of its expiry
C4_Witness ==
  /\ last.op \in VerifyOps
  /\ last.ret.tag = "row"
  /\ now = last.ret.row.expiresAt

\* C5: with one request at a time a reset token is used once: a successful
\* resetPassword leaves the hash of its password and no token; afterwards
\* verification and reset with that token return null and change no hash.
C5_Step ==
  /\ \A p \in Procs :
       (call[p].pc = "rp_delete" /\ call'[p].pc = "idle")
       => /\ last'.ret = [tag |-> "user", user |-> call[p].row.user]
          /\ BcryptCompare(call[p].pw, users'[call[p].row.userId].hash)
          /\ ~ \E r \in passwordReset' : r.token = call[p].token
  /\ \A p \in Procs, t \in TokenIds, q \in Passwords :
       (/\ verifyPasswordResetToken(p, t) \/ resetPassword(p, t, q)
        /\ pwWrites[t] > 0)
       => (last'.ret = Null /\ call'[p].pc = "idle" /\ users' = users)

C5_Used ==
  \A t \in TokenIds :
    /\ pwWrites[t] <= 1
    /\ (pwWrites[t] = 1 /\ \A p \in Procs : call[p].pc = "idle")
         => ~ Stored("reset", t)

C5_SingleUseSequential == [] C5_Used /\ [][C5_Step]_vars

\* a reset attempted with a token that had already changed a password
C5_Witness ==
  /\ last.op = "resetPassword"
  /\ last.ret = Null
  /\ pwWrites[last.token] = 1

\* C6: consumption is not atomic: the password update of resetPassword is
\* applied whether or not the token that authorised it is still stored, so
\* one token can authorise two updates and the later write stays.
C6_Step ==
  \A p \in Procs :
    ResetPasswordUpdate(p)
      => BcryptCompare(call[p].pw, users'[call[p].row.userId].hash)

C6_LaterWriteWins == [][C6_Step]_vars

\* two password updates authorised by one token, the second after the first
\* request had already deleted the token
C6_Witness ==
  \E t \in TokenIds :
    /\ pwWrites[t] = 2
    /\ ~ Stored("reset", t)
    /\ \E p \in Procs : call[p].pc = "rp_delete" /\ call[p].token = t

\* C7: verifyLogin decides in this order: no user or no password -> null;
\* unverified -> needsVerification; wrong password -> null; otherwise the user
\* record, which carries no password hash.
C7_Expected(email, pw) ==
  IF email \notin DOMAIN users THEN Null
  ELSE IF users[email].isVerified = FALSE THEN [tag |-> "needsVerification"]
  ELSE IF users[email].hash # BcryptHash(pw, users[email].hash[2]) THEN Null
  ELSE [tag |-> "user", user |-> [id |-> email, isVerified |-> TRUE]]

C7_Step ==
  \A p \in Procs, email \in Users \cup {NoAccount}, pw \in Passwords :
    verifyLogin(p, email, pw) => last'.ret = C7_Expected(email, pw)

C7_LoginDecisionOrder == [][C7_Step]_vars

\* the right password of an unverified account answered with needsVerification
C7_Witness ==
  /\ last.op = "verifyLogin"
  /\ last.email \in DOMAIN users
  /\ BcryptCompare(last.pw, users[last.email].hash)
  /\ last.ret = [tag |-> "needsVerification"]

\* C8: the forgot-password action answers every well-formed e-mail as it
\* answers one that has no account, whatever the e-mail step does.
C8_UniformForgotPasswordResponse ==
  (last.op = "forgotPassword" /\ validateEmail(last.email))
    => (/\ last.ret.tag = "response"
        /\ last.ret.status = FpSuccess.status
        /\ last.ret.body = FpSuccess.body)

\* C9: no coffee operation crosses users. A read answers with entries (or
\* name/brand pairs of entries) of the calling user only; an update or a delete
\* aimed at another user's entry leaves the entry as it was, and the caller
\* gets what an identifier no entry has would get: null, a count of 0, or the
\* record-not-found error.
C9_Reads ==
  /\ reply.op = "getCoffee" =>
       /\ reply.ret.tag = "coffee" =>
            (reply.ret.coffee \in coffees /\ reply.ret.coffee.userId = reply.userId)
       /\ (\E e \in coffees : e.id = reply.id /\ e.userId # reply.userId) => reply.ret = Null
  /\ (reply.op \in {"getCoffeeListItems", "getCoffeeListItemsPaginated"}
        /\ reply.ret.tag # "error") =>
       \A i \in 1..Len(reply.ret.items) :
         reply.ret.items[i] \in coffees /\ reply.ret.items[i].userId = reply.userId
  /\ reply.op = "getUniqueCoffees" =>
       \A i \in 1..Len(reply.ret.items) :
         \E r \in coffees :
           /\ r.userId = reply.userId
           /\ r.name = reply.ret.items[i].name
           /\ r.brand = reply.ret.items[i].brand

C9_Step ==
  /\ \A a \in Users, e \in coffees :
       e.userId # a =>
         /\ deleteCoffee(a, e.id)
              => (e \in coffees' /\ reply'.ret = [tag |-> "count", count |-> 0])
         /\ \A form \in CoffeeForms :
              updateCoffee(a, e.id, form)
                => (e \in coffees' /\ reply'.ret = [tag |-> "error", code |-> "P2025"])
  /\ C9_Reads'

C9_NoCrossUserAccess == [][C9_Step]_vars

\* an update aimed at an entry of another user
C9_Witness ==
  /\ reply.op = "updateCoffee"
  /\ \E e \in coffees : e.id = reply.id /\ e.userId # reply.userId

\* C10: page k of p-sized pages, 1 <= k <= totalPages, holds exactly the
\* entries at positions (k-1)*p+1 .. min(k*p, N) of the user's N entries in
\* createdAt-descending order; the last page holds N - (totalPages-1)*p of
\* them, and the pages 1..totalPages hold every entry exactly once.
C10_Position(e, rows) == 1 + Cardinality({o \in rows : Before(o, e)})

C10_TotalPages(n, p) == CHOOSE t \in 0..n : t * p >= n /\ (t = 0 \/ (t - 1) * p < n)

C10_PageIsSlice ==
  (reply.op = "getCoffeeListItemsPaginated" /\ reply.ret.tag = "page") =>
    LET mine == OwnedBy(coffees, reply.userId)
        n == Cardinality(mine)
        k == reply.ret.pagination.currentPage
        p == reply.ret.pagination.perPage
        items == reply.ret.items
        totalPages == C10_TotalPages(n, p)
    IN (1 <= k /\ k <= totalPages) =>
         /\ Len(items) = Min(k * p, n) - (k - 1) * p
         /\ \A i \in 1..Len(items) :
              /\ items[i] \in mine
              /\ C10_Position(items[i], mine) = (k - 1) * p + i
         /\ \A i, j \in 1..Len(items) :
              i < j => items[i].createdAt >= items[j].createdAt
         /\ k = totalPages => Len(items) = n - (totalPages - 1) * p

C10_PagesPartition ==
  \A u \in Users, p \in PageSizes :
    LET mine == OwnedBy(coffees, u)
        n == Cardinality(mine)
        Page(k) == PageResult(n, mine, k, p).items
    IN \A e \in mine :
         Cardinality({kp \in (1..C10_TotalPages(n, p)) \X (1..p) :
                        kp[2] <= Len(Page(kp[1])) /\ Page(kp[1])[kp[2]] = e}) = 1

\* 25 entries, page 3, perPage 10 -> 5 items
C10_TwentyFive ==
  LET rows == {[id |-> i, userId |-> "u1", createdAt |-> i \div 2,
                name |-> "Arabica", brand |-> "Illy", rating |-> 5] : i \in 1..25}
  IN Len(PageResult(25, rows, 3, 10).items) = 5

C10_PaginationSlices == C10_PageIsSlice /\ C10_PagesPartition /\ C10_TwentyFive

\* the second and last page of three entries, two to a page: one item
C10_Witness ==
  /\ reply.op = "getCoffeeListItemsPaginated"
  /\ reply.ret.tag = "page"
  /\ Cardinality(OwnedBy(coffees, reply.userId)) = 3
  /\ reply.ret.pagination.perPage = 2
  /\ reply.ret.pagination.currentPage = 2
  /\ Len(reply.ret.items) = 1

\* C11: the pagination block of a returned page has totalItems = N (the
\* entries of the user), totalPages = ceil(N / perPage), and currentPage and
\* perPage as requested.
C11_Step ==
  (tx.pc = "findMany" /\ tx'.pc = "idle" /\ reply'.ret.tag = "page") =>
    LET n == Cardinality(OwnedBy(coffees', tx.userId))
        block == reply'.ret.pagination
    IN /\ block.totalItems = n
       /\ block.totalPages = C10_TotalPages(n, tx.perPage)
       /\ block.currentPage = tx.page
       /\ block.perPage = tx.perPage

C11_PaginationBlock == [][C11_Step]_vars

\* three entries, two to a page: two pages
C11_Witness ==
  /\ reply.op = "getCoffeeListItemsPaginated"
  /\ reply.ret.tag = "page"
  /\ reply.ret.pagination.totalItems = 3
  /\ reply.ret.pagination.perPage = 2
  /\ reply.ret.pagination.totalPages = 2
  /\ reply.ret.pagination.currentPage = 1

\* C12 as stated: hasNextPage is false iff the requested page equals
\* totalPages, also for pages beyond totalPages and for N = 0.
C12_NoNextPageOnlyOnLastPage ==
  (reply.op = "getCoffeeListItemsPaginated" /\ reply.ret.tag = "page") =>
    LET n == Cardinality(OwnedBy(coffees, reply.userId))
        block == reply.ret.pagination
    IN (block.hasNextPage = FALSE) <=> (reply.id = C10_TotalPages(n, block.perPage))

\* C12 as amended: hasNextPage is false iff the requested page is the last
\* page or lies beyond it (page >= totalPages; every page when N = 0).
C12_NoNextPageFromLastPageOn ==
  (reply.op = "getCoffeeListItemsPaginated" /\ reply.ret.tag = "page") =>
    LET n == Cardinality(OwnedBy(coffees, reply.userId))
        block == reply.ret.pagination
    IN (block.hasNextPage = FALSE) <=> (reply.id >= C10_TotalPages(n, block.perPage))

\* a page beyond the last of a user who has entries
C12_Witness ==
  /\ reply.op = "getCoffeeListItemsPaginated"
  /\ reply.ret.tag = "page"
  /\ reply.ret.pagination.totalItems >= 1
  /\ reply.id > reply.ret.pagination.totalPages
  /\ reply.ret.pagination.hasNextPage = FALSE

\* C13 as stated: for every page value, 0 and negative ones included, the
\* call returns hasPrevPage = false iff the requested page is 1.
C13_NoPrevPageOnlyOnPageOne ==
  reply.op = "getCoffeeListItemsPaginated" =>
    /\ reply.ret.tag = "page"
    /\ (reply.ret.pagination.hasPrevPage = FALSE) <=> (reply.id = 1)

\* C13 as amended: for every page >= 1 the call returns hasPrevPage = false
\* iff the page is 1; for a page <= 0 it returns no pagination block (findMany
\* is given a negative skip and rejects).
C13_NoPrevPageOnlyOnPageOneFromOne ==
  reply.op = "getCoffeeListItemsPaginated" =>
    IF reply.id >= 1
    THEN /\ reply.ret.tag = "page"
         /\ (reply.ret.pagination.hasPrevPage = FALSE) <=> (reply.id = 1)
    ELSE reply.ret.tag = "error"

\* the first page of a user with more than one page
C13_Witness ==
  /\ reply.op = "getCoffeeListItemsPaginated"
  /\ reply.id = 1
  /\ reply.ret.tag = "page"
  /\ reply.ret.pagination.totalPages >= 2
  /\ reply.ret.pagination.hasPrevPage = FALSE

\* C14: no write of another request falls between the count and the fetch of
\* one getCoffeeListItemsPaginated call, so totalItems, totalPages and items
\* describe one snapshot: items is the requested slice of a list of
\* totalItems entries.
C14_Step ==
  /\ tx.pc = "findMany" => coffees' = coffees
  /\ (tx.pc = "findMany" /\ tx'.pc = "idle" /\ reply'.ret.tag = "page") =>
       LET mine == OwnedBy(coffees', tx.userId)
           total == reply'.ret.pagination.totalItems
           items == reply'.ret.items
           first == (tx.page - 1) * tx.perPage
           size == Min(tx.page * tx.perPage, total) - first
       IN /\ total = Cardinality(mine)
          /\ reply'.ret.pagination.totalPages = C10_TotalPages(total, tx.perPage)
          /\ Len(items) = IF size > 0 THEN size ELSE 0
          /\ \A i \in 1..Len(items) :
               items[i] \in mine /\ C10_Position(items[i], mine) = first + i

C14_PageDescribesOneSnapshot == [][C14_Step]_vars

\* the count is taken, the fetch is not: a create and a delete for the same
\* user are ready and held back
C14_Witness ==
  /\ tx.pc = "findMany"
  /\ tx.totalItems >= 1
  /\ nextCoffee <= MaxCoffees

\* C15: a token issued at time t (the instant of `new Date()` in
\* create*Token) gets expiresAt = t + 5 minutes for password reset and
\* t + 24 hours for email confirmation, so that it is not expired at t and a
\* verification at t + ttl still finds it valid.
C15_Step ==
  \A p \in Procs :
    IssueDelete(p) =>
      /\ call'[p].exp = now + Ttl(call[p].kind)
      /\ ~ IsExpired(now, call'[p].exp)
      /\ ~ IsExpired(now + Ttl(call[p].kind), call'[p].exp)
      /\ IsExpired(now + Ttl(call[p].kind) + 1, call'[p].exp)

C15_ExpiryIsIssueTimePlusTtl == [][C15_Step]_vars

\* ---------------------------------------------------------------- C16
\* the entries of a list that carry a given name and brand
C16_Members(list, name, brand) ==
  {i \in 1..Len(list) : list[i].name = name /\ list[i].brand = brand}

RECURSIVE C16_RatingSum(_, _)
C16_RatingSum(list, members) ==
  IF members = {} THEN 0
  ELSE LET i == CHOOSE m \in members : TRUE
       IN list[i].rating + C16_RatingSum(list, members \ {i})

C16_Pairs(list) == {<<list[i].name, list[i].brand>> : i \in 1..Len(list)}

\* a list of groups is a grouping of the entries by (name, brand): no pair
\* appears twice, every group's count is the number of entries with its name
\* and brand (at least one) and its avgRating is the sum of their ratings
\* divided by that count
C16_GroupsOf(list, groups) ==
  /\ \A i, j \in 1..Len(groups) :
       (groups[i].name = groups[j].name /\ groups[i].brand = groups[j].brand) => i = j
  /\ \A k \in 1..Len(groups) :
       LET members == C16_Members(list, groups[k].name, groups[k].brand)
       IN /\ members # {}
          /\ groups[k].count = Cardinality(members)
          /\ groups[k].avgRating[1] * groups[k].count
               = C16_RatingSum(list, members) * groups[k].avgRating[2]

\* C16: entries are grouped by the (name, brand) pair: two entries are in one
\* group iff their names are equal and their brands are equal, whatever the
\* strings contain ('|' included); a group's count is the number of its
\* entries and its avgRating the sum of their ratings divided by the count.
\* (With at most five pairs every group is on both lists.)
C16_GroupedByNameAndBrand ==
  LET list == stats.filteredCoffees
  IN /\ C16_GroupsOf(list, stats.mostConsumedCoffees)
     /\ C16_GroupsOf(list, stats.topRatedCoffees)
     /\ Cardinality(C16_Pairs(list)) <= TopCount =>
          /\ Len(stats.mostConsumedCoffees) = Cardinality(C16_Pairs(list))
          /\ Len(stats.topRatedCoffees) = Cardinality(C16_Pairs(list))

\* ---------------------------------------------------------------- C17
\* the groups the statistics functions build from a list, as a set
RankedGroups(list) ==
  LET groups == ObjectValues(GroupedCoffees(list))
  IN {groups[k] : k \in 1..Len(groups)}

\* g is ranked strictly before h: more entries, or as many and a higher average
C17_Before(g, h) ==
  \/ g.count > h.count
  \/ g.count = h.count /\ g.avgRating[1] * h.avgRating[2] > h.avgRating[1] * g.avgRating[2]

C17_Earlier(groups) == {pair \in groups \X groups : C17_Before(pair[1], pair[2])}

\* `shown` is the head of a ranking of `groups`: at most five of the groups,
\* none twice, none ranked before one that precedes it on the list, no group
\* left out that is ranked before one on the list, and none left out while
\* there is room
\* (earlier: the pairs <<g, h>> of groups with g ranked strictly before h)
C17_TopOf(shown, groups, earlier) ==
  /\ Len(shown) <= 5
  /\ \A k \in 1..Len(shown) : shown[k] \in groups
  /\ \A i, j \in 1..Len(shown) :
       i < j => shown[i] # shown[j] /\ <<shown[j], shown[i]>> \notin earlier
  /\ \A g \in groups :
       (\A k \in 1..Len(shown) : shown[k] # g)
         => /\ Len(shown) = 5
            /\ \A k \in 1..Len(shown) : <<g, shown[k]>> \notin earlier

\* rendering again over the same filtered list gives the same list of groups
C17_Step ==
  stats'.filteredCoffees = stats.filteredCoffees
    => stats'.mostConsumedCoffees = stats.mostConsumedCoffees

C18_Before(g, h) ==
  \/ g.avgRating[1] * h.avgRating[2] > h.avgRating[1] * g.avgRating[2]
  \/ /\ g.avgRating[1] * h.avgRating[2] = h.avgRating[1] * g.avgRating[2]
     /\ g.count > h.count

\* C18: calculateTopRatedCoffees returns at most five groups, in descending
\* order of average rating and, among equal averages, of count; a group it
\* leaves out is ranked no earlier than any it returns.
C18_TopRatedTopFive ==
  C17_TopOf(stats.topRatedCoffees, RankedGroups(stats.filteredCoffees),
            {pair \in RankedGroups(stats.filteredCoffees) \X RankedGroups(stats.filteredCoffees) :
               C18_Before(pair[1], pair[2])})

\* six or more groups, two of the returned ones with equal averages and
\* different counts
C18_Witness ==
  /\ Cardinality(RankedGroups(stats.filteredCoffees)) > 5
  /\ \E i, j \in 1..Len(stats.topRatedCoffees) :
       /\ stats.topRatedCoffees[i].avgRating = stats.topRatedCoffees[j].avgRating
       /\ stats.topRatedCoffees[i].count > stats.topRatedCoffees[j].count

\* ---------------------------------------------------------------- C19
C19_Occurrences(list, preparation) ==
  Cardinality({i \in 1..Len(list) : list[i].preparation = preparation})

C19_FirstSeen(list, preparation) ==
  CHOOSE i \in 1..Len(list) :
    /\ list[i].preparation = preparation
    /\ \A j \in 1..(i - 1) : list[j].preparation # preparation

\* C19: calculateMostCommonPreparation returns null for an empty list and
\* otherwise a preparation of the list that no other occurs more often than;
\* of several that occur equally often it returns the one seen first in the
\* list, whatever the preparation strings are.
C19_MostCommonIsFirstSeenMode ==
  LET list == stats.filteredCoffees
      answer == stats.mostCommonPreparation
  IN IF list = <<>>
     THEN answer = Null
     ELSE /\ answer.tag = "string"
          /\ C19_Occurrences(list, answer.value) >= 1
          /\ \A i \in 1..Len(list) :
               LET other == list[i].preparation
               IN /\ C19_Occurrences(list, other) <= C19_Occurrences(list, answer.value)
                  /\ C19_Occurrences(list, other) = C19_Occurrences(list, answer.value)
                       => C19_FirstSeen(list, answer.value) <= C19_FirstSeen(list, other)

\* ---------------------------------------------------------------- C20
\* the day k months before `clock`: in the month k months earlier, the
\* latest day of that month that is not after clock's day of the month
C20_MonthsBefore(clock, k) ==
  LET days == {d \in 1..31 : d <= clock.d /\ d <= DaysIn(clock.m - k)}
  IN [m |-> clock.m - k, d |-> CHOOSE d \in days : \A e \in days : e <= d]

C20_Months == [r \in TimeRanges \ {"all"} |->
                 IF r = "1month" THEN 1 ELSE IF r = "3months" THEN 3
                 ELSE IF r = "6months" THEN 6 ELSE 12]

\* the positions of the list the range keeps
C20_Kept(list, range, clock) ==
  {i \in 1..Len(list) :
     LET createdAt == ParseDate(list[i].createdAt)
         start == C20_MonthsBefore(clock, C20_Months[range])
     IN /\ start.m < createdAt.m \/ (start.m = createdAt.m /\ start.d <= createdAt.d)
        /\ createdAt.m < clock.m \/ (createdAt.m = clock.m /\ createdAt.d <= clock.d)}

\* `result` holds the entries of `list` at the positions `kept`, in list order
C20_SubList(result, list, kept) ==
  /\ Len(result) = Cardinality(kept)
  /\ \A n \in 1..Len(result) :
       \E i \in kept : /\ Cardinality({j \in kept : j < i}) = n - 1
                       /\ result[n] = list[i]

\* C20: with a range of k months (1, 3, 6, 12) filterCoffeesByTimeRange keeps
\* an entry iff now - k months <= createdAt <= now, both limits included, in
\* the order of the input; with range 'all' it returns the input unchanged.
C20_TimeRangeFilter ==
  IF timeRange = "all"
  THEN stats.filteredCoffees = diary
  ELSE C20_SubList(stats.filteredCoffees, diary, C20_Kept(diary, timeRange, today))

\* an entry of today and an entry of the first day of the range are kept and
\* an entry dated after today is dropped; the range starts on the last day
\* of a month shorter than today's day of the month
C20_Witness ==
  /\ timeRange \in {"1month", "6months"}
  /\ today = FirstDay
  /\ \E i, j, k \in 1..Len(diary) :
       /\ ParseDate(diary[i].createdAt) = today
       /\ ParseDate(diary[j].createdAt) = SubMonths(today, RangeMonths(timeRange))
       /\ ParseDate(diary[j].createdAt).d < today.d
       /\ ~ NotAfter(ParseDate(diary[k].createdAt), today)
  /\ Len(stats.filteredCoffees) = 2

\* ---------------------------------------------------------------- C21
\* C21: getUniqueCoffees(userId) returns every (name, brand) pair that occurs
\* among the user's entries, each once, and no other pair, in ascending
\* order of name and, for equal names, of brand.
C21_UniqueCoffees ==
  reply.op = "getUniqueCoffees" =>
    LET items == reply.ret.items
        own == {r \in coffees : r.userId = reply.userId}
    IN /\ \A r \in own : \E k \in 1..Len(items) :
            items[k].name = r.name /\ items[k].brand = r.brand
       /\ \A k \in 1..Len(items) : \E r \in own :
            items[k] = [name |-> r.name, brand |-> r.brand]
       /\ \A i, j \in 1..Len(items) :
            i < j => \/ Rank(items[i].name) < Rank(items[j].name)
                     \/ /\ items[i].name = items[j].name
                        /\ Rank(items[i].brand) < Rank(items[j].brand)

\* two pairs of one name returned for a user with three entries, one of the
\* pairs occurring twice
C21_Witness ==
  /\ reply.op = "getUniqueCoffees"
  /\ Len(reply.ret.items) = 2
  /\ Cardinality({r \in coffees : r.userId = reply.userId}) = 3
  /\ reply.ret.items[1].name = reply.ret.items[2].name

\* ---------------------------------------------------------------- C22
\* C22: sendPasswordResetEmail never throws: every call ends returning true
\* or false and the action answers with a response; it returns true only when
\* the API answered OK, false when the API key or the domain is missing, when
\* the API answers non-OK and when the HTTP call throws; it calls the API at
\* most once, and not at all without key or domain.
C22_Step ==
  \A p \in Procs :
    (call[p].pc \in {"fp_send", "fp_fetch"} /\ call'[p].pc = "idle") =>
      /\ last'.ret.tag = "response"
      /\ mail'[p].ret \in {"true", "false"}
      /\ mail'[p].ret = "true" <=> mail'[p].outcome = "ok"
      /\ mail'[p].calls <= 1
      /\ mail'[p].outcome \in {"noApiKey", "noDomain"} => mail'[p].calls = 0
      /\ last'.ret = (IF mail'[p].ret = "true" THEN FpSuccess ELSE FpSendFailed)

C22_MailNeverThrows ==
  /\ [] (\A p \in Procs : mail[p].calls <= 1)
  /\ [][C22_Step]_vars

\* a call that returned false after the HTTP call threw, and one that made
\* no HTTP call
C22_Witness ==
  /\ \E p \in Procs : mail[p] = [outcome |-> "fetchThrows", calls |-> 1, ret |-> "false"]
  /\ \E p \in Procs : mail[p].outcome = "noApiKey" /\ mail[p].ret = "false"

\* ---------------------------------------------------------------- C28
\* C28: for an existing user with isVerified = false the result of
\* verifyLogin does not depend on the password: it is needsVerification for
\* the password supplied and for every other password, wrong or right.
C28_Step ==
  \A p \in Procs, email \in Users, pw \in Passwords :
    (verifyLogin(p, email, pw) /\ email \in DOMAIN users /\ ~ users[email].isVerified) =>
      /\ last'.ret = [tag |-> "needsVerification"]
      /\ \A other \in Passwords :
           VerifyLoginResult(FindUserWithPassword(email), other) = last'.ret

C28_UnverifiedLoginIgnoresPassword == [][C28_Step]_vars

\* a wrong password for an unverified account answered with needsVerification
C28_Witness ==
  /\ last.op = "verifyLogin"
  /\ last.email \in DOMAIN users
  /\ ~ users[last.email].isVerified
  /\ ~ BcryptCompare(last.pw, users[last.email].hash)
  /\ last.ret = [tag |-> "needsVerification"]

\* ---------------------------------------------------------------- C24
\* C24: login, password reset and e-mail confirmation create a session only
\* for a user whose isVerified is true when the session is created; signup is
\* the only route that creates a session for a user with isVerified = false.
C24_SessionsOnlyForVerified ==
  \A s \in sessions : s.route # "join" => s.isVerified

\* the part of C24 about login and e-mail confirmation
C24_LoginAndConfirmationGated ==
  \A s \in sessions : s.route \in {"login", "confirm-email"} => s.isVerified

\* ---------------------------------------------------------------- C26
\* C26: under any interleaving of resetPassword and createPasswordResetToken
\* steps, the password update of a resetPassword call happens only while the
\* call's token is still in the PasswordReset table; a token replaced by a
\* newer issuance after it was verified does not change the password.
C26_Step ==
  \A p \in Procs :
    (call[p].pc = "rp_update" /\ call'[p].pc = "rp_delete") =>
      \E r \in passwordReset : r.token = call[p].token

C26_UpdateOnlyWhileTokenStored == [][C26_Step]_vars

\* ---------------------------------------------------------------- C25
\* C25: a request to the reset-password action that does not end in a session
\* has changed no password hash and made no session, and it ends with one of
\* the 400 responses: the password checks answer before the token is looked
\* up and leave the PasswordReset table as it is; an absent or an expired
\* token gets the generic invalid-or-expired message.
C25_Step ==
  (last'.op = "reset-password" /\ last'.ret # SessionRedirect) =>
    /\ users' = users
    /\ \A p \in Procs : ~ (call[p].pc = "rp_delete" /\ call'[p].pc = "idle")
    /\ sessions' = {}
    /\ last'.ret \in {RpNoToken, RpRequired, RpShort, RpMismatch, RpInvalidToken}
    /\ last'.ret \in {RpRequired, RpShort, RpMismatch} => passwordReset' = passwordReset

C25_FailingResetChangesNothing == [][C25_Step]_vars

\* ---------------------------------------------------------------- C23
\* C23: confirmUserEmail(token) with a stored unexpired token sets isVerified
\* of the token's owner and of nobody else, deletes the token and returns the
\* user; with an absent or expired token it returns null and changes no
\* isVerified flag; a call with a token consumed before returns null and
\* leaves the user verified.
C23_Step ==
  /\ \A p \in Procs, token \in TokenIds :
       (confirmUserEmail(p, token) /\ FindUnique(emailConfirmation, token) = Null) =>
         last'.ret = Null /\ users' = users
  /\ \A p \in Procs :
       (call[p].op = "confirmUserEmail" /\ call[p].pc = "cue_update" /\ call'[p].pc = "cue_delete") =>
         users' = [users EXCEPT ![call[p].row.userId].isVerified = TRUE]
  /\ last'.op = "confirmUserEmail" =>
       /\ last'.ret.tag \in {"null", "user"}
       /\ last'.ret.tag = "user" =>
            /\ users'[last'.ret.user.id].isVerified
            /\ last'.ret.user.isVerified
            /\ FindUnique(emailConfirmation', last'.token) = Null
       /\ last'.ret = Null =>
            /\ users' = users
            /\ \A p \in Procs : ~ (call[p].pc = "cue_delete" /\ call'[p].pc = "idle")

C23_ConfirmUserEmail == [][C23_Step]_vars

\* ---------------------------------------------------------------- C27
\* C27: resendEmailConfirmation(email) returns null and changes nothing for
\* an unknown e-mail; returns alreadyVerified and neither creates nor deletes
\* a confirmation token for a verified user; for an unverified user it ends
\* returning the user with a fresh token, the only one stored for the user.
C27_Step ==
  /\ \A p \in Procs, email \in Users \cup {NoAccount} :
       ResendEmailConfirmation(p, email) =>
         IF email \notin DOMAIN users
         THEN last'.ret = Null /\ UNCHANGED <<users, emailConfirmation, passwordReset>>
         ELSE IF users[email].isVerified
         THEN /\ last'.ret = [tag |-> "alreadyVerified"]
              /\ UNCHANGED <<users, emailConfirmation, passwordReset>>
         ELSE call'[p].pc = "issue_getUser"
  /\ \A p \in Procs :
       (call[p].op = "resendEmailConfirmation" /\ call'[p].pc = "idle") =>
         /\ last'.ret.tag = "issued"
         /\ last'.ret.user.id = call[p].email
         /\ last'.ret.token.token \notin {i.token : i \in issued}
         /\ {r \in emailConfirmation' : r.userId = call[p].email} = {last'.ret.token}

C27_ResendEmailConfirmation == [][C27_Step]_vars

\* ---------------------------------------------------------------- C29
\* C29: isVerified is monotonic: a user created by signup starts with
\* isVerified = false; the flag changes only from false to true, in the update
\* of a confirmUserEmail call that verified a token of that user; no step sets
\* it back to false (no route calls deleteUserByEmail: a user row stays).
C29_Step ==
  /\ \A e \in DOMAIN users :
       /\ e \in DOMAIN users'
       /\ users[e].isVerified => users'[e].isVerified
       /\ (~ users[e].isVerified /\ users'[e].isVerified) =>
            \E p \in Procs : /\ call[p].op = "confirmUserEmail"
                             /\ call[p].pc = "cue_update"
                             /\ call[p].row.userId = e
                             /\ call[p].row.token = call[p].token
  /\ \A e \in DOMAIN users' \ DOMAIN users :
       /\ ~ users'[e].isVerified
       /\ \E p \in Procs : call[p].pc = "join_create" /\ call[p].email = e

C29_VerifiedIsMonotonic == [][C29_Step]_vars

\* a user who signed up has confirmed the e-mail address
C29_Witness == \E e \in Newcomers : e \in DOMAIN users /\ users[e].isVerified

\* ---------------------------------------------------------------- C30
\* C30: a request to the signup action that does not end in a session has
\* created no user, no confirmation token and no session: it ends before
\* createUnverifiedUser, or in it without a row written. An invalid e-mail, a
\* missing or short password and an e-mail that belongs to a user answer 400,
\* an upload that throws answers 500 with the avatarUrl error; the user is
\* created unverified, after the checks and the upload.
C30_Step ==
  /\ (last'.op = "join" /\ last'.ret # SessionRedirect) =>
       /\ sessions' = {}
       /\ users' = users
       /\ emailConfirmation' = emailConfirmation
       /\ \A p \in Procs :
            (call[p].route = "join" /\ call'[p].pc = "idle") =>
              call[p].pc \in {"join_upload", "join_create"}
  /\ \A p \in Procs, email \in {InvalidEmail, "u1"} \cup Newcomers, pw \in FormPasswords, withAvatar \in BOOLEAN :
       SignupAction(p, email, pw, withAvatar) =>
         IF email = InvalidEmail THEN last'.ret = JoinInvalidEmail
         ELSE IF pw = NoPassword THEN last'.ret = JoinRequired
         ELSE IF pw = ShortPassword THEN last'.ret = JoinShort
         ELSE IF email \in DOMAIN users THEN last'.ret = JoinExists
         ELSE call'[p].pc = (IF withAvatar THEN "join_upload" ELSE "join_create")
  /\ \A p \in Procs :
       (call[p].pc = "join_upload" /\ call'[p].pc = "idle") => last'.ret = JoinAvatar
  /\ \A e \in DOMAIN users' \ DOMAIN users :
       /\ ~ users'[e].isVerified
       /\ \E p \in Procs : call[p].pc = "join_create" /\ call[p].email = e

C30_FailingSignupCreatesNothing == [][C30_Step]_vars

====
